---------------------------- MODULE Spec2Model ----------------------------
(***************************************************************************)
(* Shape-definition pipeline of the Reassembly shape editor:               *)
(*   text -> fix_lua_syntax -> grammar-driven parse (full_moon) ->         *)
(*   extract_shape  -- on failure or zero shapes --> legacy_parse_shapes   *)
(*   ShapesFile -> serialize_shapes_file -> text.                          *)
(*                                                                         *)
(* A text is the sequence of its lexemes: Lua tokens, the comment marker   *)
(* "--", and the whitespace between them (" ", a run of four spaces, tab,  *)
(* line feed).  Every pattern the code searches for ("}\n{",               *)
(* "launcher_radial=", "verts", ",", "{" ...) is a whole number of         *)
(* lexemes, so substring search, replace, split and trim act on lexemes    *)
(* exactly as the Rust code acts on characters.  Where the code compares   *)
(* or parses a Rust string, the lexemes are joined back into one string.   *)
(***************************************************************************)
EXTENDS Integers, Sequences, FiniteSets, TLC

VARIABLES
    editor,           \* the ShapeEditor
    last,             \* the operation the editor did last, and the shapes before it
    mode,             \* which entry point the run exercises
    overflow_checks,  \* build profile: TRUE = debug (overflow panics), FALSE = release (wraps)
    file,             \* descriptor of the input file the text was written from
    content,          \* the text in hand (input of the parser, output of the serializer)
    shapes_file,      \* the ShapesFile in hand (input of the serializer)
    result,           \* value returned by the last call
    trail,            \* texts returned by the successive fix_lua_syntax calls
    token,            \* PortType token string in hand
    tag,              \* PortType tag in hand
    pc,               \* position of the driver
    scan,             \* locals of the heuristic parser's three loops while it runs
    readable          \* whether the file at the path can be read

vars == <<mode, overflow_checks, file, content, shapes_file, result, trail, token, tag, pc,
          scan, readable, editor, last>>

----------------------------------------------------------------------------
(* Options and sequences *)

None == <<>>
Some(x) == <<x>>
IsSome(o) == Len(o) = 1

Range(s) == {s[i] : i \in 1..Len(s)}

RECURSIVE Flatten(_)
Flatten(ss) == IF Len(ss) = 0 THEN <<>> ELSE Head(ss) \o Flatten(Tail(ss))

RECURSIVE JoinAtoms(_)
\* The Rust string spelled by a run of lexemes.
JoinAtoms(s) == IF Len(s) = 0 THEN "" ELSE Head(s) \o JoinAtoms(Tail(s))

----------------------------------------------------------------------------
(* Lexemes *)

NL == "\n"
TAB == "\t"
SP == " "
IND == "    "
Blank == {SP, TAB, IND}

RECURSIVE Indent(_)
Indent(n) == IF n = 0 THEN <<>> ELSE <<IND>> \o Indent(n - 1)

\* Decimal literals and the f32 they denote, counted in hundredths.
DecLit ==
    ("0" :> 0) @@ ("1" :> 100) @@ ("2" :> 200) @@ ("3" :> 300) @@ ("5" :> 500) @@
    ("10" :> 1000) @@ ("5001" :> 500100) @@ ("5002" :> 500200) @@
    ("0.5" :> 50) @@ ("0.25" :> 25) @@ ("0.75" :> 75) @@ ("3.5" :> 350) @@
    ("5.0" :> 500)
\* The literals Rust prints: the shortest decimal of each value.
CanonLit == DOMAIN DecLit \ {"5.0"}
\* Those among them that are unsigned integers.
IntLit == {"0", "1", "2", "3", "5", "10", "5001", "5002"}
HexDigit == <<"0", "1", "2", "3", "4", "5", "6", "7", "8", "9", "a", "b", "c", "d", "e", "f">>

RECURSIVE Pow16(_)
Pow16(k) == IF k = 0 THEN 1 ELSE 16 * Pow16(k - 1)

RECURSIVE HexFrom(_, _)
HexFrom(c, k) ==
    IF k < 0 THEN "" ELSE HexDigit[((c \div Pow16(k)) % 16) + 1] \o HexFrom(c, k - 1)

fmt_color_SixDigits(c) == <<"0x" \o HexFrom(c, 5)>>

\* format!("0x{:08x}", color)
fmt_color(c) == <<"0x" \o HexFrom(c, 7)>>

\* The packed colours the data models below use.
Colors == {1126519, 16777215}
\* Lua numbers that are no Rust decimal: hexadecimal literals.
HexLit == {"0x10"} \cup {fmt_color(c)[1] : c \in Colors}

\* str::parse::<usize>
parse_usize(s) ==
    IF s \in IntLit THEN Some(DecLit[s] \div 100) ELSE None

\* str::parse::<f32>
parse_f32(s) ==
    IF s \in DOMAIN DecLit THEN Some(DecLit[s])
    ELSE IF \E u \in DOMAIN DecLit : s = "-" \o u
         THEN Some(0 - DecLit[CHOOSE u \in DOMAIN DecLit : s = "-" \o u])
         ELSE None

\* format!("{}", x) for a usize, as lexemes
fmt_usize(n) == <<CHOOSE s \in IntLit : DecLit[s] = n * 100>>

\* format!("{}", x) for an f32, as lexemes (a negative value prints "-" and the digits)
fmt_f32(v) ==
    IF v < 0 THEN <<"-", CHOOSE s \in CanonLit : DecLit[s] = 0 - v>>
    ELSE <<CHOOSE s \in CanonLit : DecLit[s] = v>>

----------------------------------------------------------------------------
(* ast.rs: PortType *)

PortTypes == {"Default", "ThrusterIn", "ThrusterOut", "WeaponIn", "WeaponOut",
              "Missile", "Launcher", "Root", "None"}

from_str_NoneForgotten(s) ==
    CASE s = "THRUSTER_IN" -> "ThrusterIn"
      [] s = "THRUSTER_OUT" -> "ThrusterOut"
      [] s = "WEAPON_IN" -> "WeaponIn"
      [] s = "WEAPON_OUT" -> "WeaponOut"
      [] s = "MISSILE" -> "Missile"
      [] s = "LAUNCHER" -> "Launcher"
      [] s = "ROOT" -> "Root"
      [] OTHER -> "Default"

from_str(s) ==
    CASE s = "THRUSTER_IN" -> "ThrusterIn"
      [] s = "THRUSTER_OUT" -> "ThrusterOut"
      [] s = "WEAPON_IN" -> "WeaponIn"
      [] s = "WEAPON_OUT" -> "WeaponOut"
      [] s = "MISSILE" -> "Missile"
      [] s = "LAUNCHER" -> "Launcher"
      [] s = "ROOT" -> "Root"
      [] s = "NONE" -> "None"
      [] OTHER -> "Default"

to_str(t) ==
    CASE t = "Default" -> "DEFAULT"
      [] t = "ThrusterIn" -> "THRUSTER_IN"
      [] t = "ThrusterOut" -> "THRUSTER_OUT"
      [] t = "WeaponIn" -> "WEAPON_IN"
      [] t = "WeaponOut" -> "WEAPON_OUT"
      [] t = "Missile" -> "MISSILE"
      [] t = "Launcher" -> "LAUNCHER"
      [] t = "Root" -> "ROOT"
      [] t = "None" -> "NONE"

----------------------------------------------------------------------------
(* Rust str operations, on lexemes *)

StartsWith(s, p) == Len(s) >= Len(p) /\ SubSeq(s, 1, Len(p)) = p

Drop(s, n) == SubSeq(s, n + 1, Len(s))

Min(S) == CHOOSE x \in S : \A y \in S : x <= y

\* The places where `from` occurs in s.
Matches(s, from) ==
    {i \in 1..(Len(s) - Len(from) + 1) : SubSeq(s, i, i + Len(from) - 1) = from}

RECURSIVE ReplaceFrom(_, _, _, _, _)
ReplaceFrom(s, from, to, start, found) ==
    LET later == {i \in found : i >= start}
    IN  IF later = {} THEN SubSeq(s, start, Len(s))
        ELSE SubSeq(s, start, Min(later) - 1) \o to
             \o ReplaceFrom(s, from, to, Min(later) + Len(from), found)

\* str::replace: every non-overlapping match, left to right; the replacement is not rescanned.
replace(s, from, to) == ReplaceFrom(s, from, to, 1, Matches(s, from))

Contains(s, a) == \E i \in 1..Len(s) : s[i] = a

Count(s, a) == Cardinality({i \in 1..Len(s) : s[i] = a})

RECURSIVE TrimStartIn(_, _)
TrimStartIn(s, set) ==
    IF Len(s) > 0 /\ Head(s) \in set THEN TrimStartIn(Tail(s), set) ELSE s

RECURSIVE TrimEndIn(_, _)
TrimEndIn(s, set) ==
    IF Len(s) > 0 /\ s[Len(s)] \in set THEN TrimEndIn(SubSeq(s, 1, Len(s) - 1), set) ELSE s

\* str::trim
trim(s) == TrimEndIn(TrimStartIn(s, Blank), Blank)

\* str::trim_matches(|c| c == '{' || c == '}' || c == ',')
trim_matches(s) == TrimEndIn(TrimStartIn(s, {"{", "}", ","}), {"{", "}", ","})

RECURSIVE SplitFrom(_, _, _)
SplitFrom(s, start, seps) ==
    LET later == {i \in seps : i >= start}
    IN  IF later = {} THEN <<SubSeq(s, start, Len(s))>>
        ELSE <<SubSeq(s, start, Min(later) - 1)>> \o SplitFrom(s, Min(later) + 1, seps)

\* str::split(','): the pieces between separators, empty pieces kept
split(s, sep) == SplitFrom(s, 1, {i \in 1..Len(s) : s[i] = sep})

\* str::lines: the pieces between line feeds, without a last empty piece
lines(s) ==
    LET parts == split(s, NL)
    IN  IF Len(parts[Len(parts)]) = 0 THEN SubSeq(parts, 1, Len(parts) - 1) ELSE parts

----------------------------------------------------------------------------
(* parser.rs: fix_lua_syntax *)

fix_lua_syntax(text) ==
    LET f1 == replace(text, <<"}", NL, TAB, "{">>, <<"}", ",", NL, TAB, "{">>)
        f2 == replace(f1, <<"}", NL, "{">>, <<"}", ",", NL, "{">>)
        f3 == replace(f2, <<"launcher_radial", "=">>, <<"launcher_radial", SP, "=", SP>>)
        f4 == replace(f3, <<"launcher_radial">>, <<"launcher_radial", SP, "=", SP, "true">>)
    IN  f4

----------------------------------------------------------------------------
(* full_moon: tokenizer and the part of the Lua grammar the lexemes can spell *)

Punct == {"{", "}", ",", ";", "=", "-"}
SymbolWords == {"true", "false", "nil"}
StringAtoms == {"\"TURRET|CANNON\"", "\"spiral\""}
\* A character no Lua token starts with.
BadAtoms == {"@"}
EOF == "<eof>"

IsNumber(a) == a \in DOMAIN DecLit \/ a \in HexLit
IsName(a) ==
    /\ a \notin Punct /\ a \notin SymbolWords /\ a \notin StringAtoms
    /\ a \notin BadAtoms /\ a \notin Blank /\ a \notin {NL, "--", "return", EOF}
    /\ ~IsNumber(a)

NotBlank(a) == a \notin Blank

\* The tokens of one line: whitespace is trivia, and so is a comment, which runs from
\* "--" to the end of the line.
LineTokens(line) ==
    LET marks == {i \in 1..Len(line) : line[i] = "--"}
        code == IF marks = {} THEN line ELSE SubSeq(line, 1, Min(marks) - 1)
    IN  SelectSeq(code, NotBlank)

tokens(text) ==
    LET ls == split(text, NL)
    IN  Flatten([k \in 1..Len(ls) |-> LineTokens(ls[k])])

Tok(toks, i) == IF i <= Len(toks) THEN toks[i] ELSE EOF

Node(k, t, fs, op) == [kind |-> k, text |-> t, fields |-> fs, operand |-> op]
Failed == [ok |-> FALSE, node |-> Node("Error", "", <<>>, <<>>), next |-> 0]
Parsed(n, i) == [ok |-> TRUE, node |-> n, next |-> i]

RECURSIVE ParseExpr(_, _)
RECURSIVE ParseUnary(_, _)
RECURSIVE ParseBinTail(_, _, _)
RECURSIVE ParseCallTail(_, _, _)
RECURSIVE ParseFields(_, _, _)

\* After a field whose value parsed as v: a separator and more fields, or the '}'.
FieldsAfter(toks, acc, key, v) ==
    LET fld == [fkind |-> IF key = "" THEN "NoKey" ELSE "NameKey", key |-> key, value |-> v.node]
    IN  IF ~v.ok THEN Failed
        ELSE IF Tok(toks, v.next) \in {",", ";"}
             THEN ParseFields(toks, v.next + 1, Append(acc, fld))
        ELSE IF Tok(toks, v.next) = "}"
             THEN Parsed(Node("TableConstructor", "", Append(acc, fld), <<>>), v.next + 1)
        ELSE Failed

\* tableconstructor ::= '{' [field {sep field} [sep]] '}', entered after the '{';
\* field ::= Name '=' exp | exp
ParseFields(toks, i, acc) ==
    IF Tok(toks, i) = "}" THEN Parsed(Node("TableConstructor", "", acc, <<>>), i + 1)
    ELSE IF IsName(Tok(toks, i)) /\ Tok(toks, i + 1) = "="
    THEN FieldsAfter(toks, acc, Tok(toks, i), ParseExpr(toks, i + 2))
    ELSE FieldsAfter(toks, acc, "", ParseExpr(toks, i))

CallAfter(toks, left, t) ==
    IF ~t.ok THEN Failed
    ELSE ParseCallTail(toks, Node("FunctionCall", left.text, <<>>, <<t.node>>), t.next)

\* A name followed by a table or a string is a call: f{...}, f"..."
ParseCallTail(toks, left, i) ==
    IF Tok(toks, i) = "{" THEN CallAfter(toks, left, ParseFields(toks, i + 1, <<>>))
    ELSE IF Tok(toks, i) \in StringAtoms
    THEN ParseCallTail(toks, Node("FunctionCall", left.text, <<>>, <<>>), i + 1)
    ELSE Parsed(left, i)

Negated(r) ==
    IF r.ok THEN Parsed(Node("UnaryOperator", "-", <<>>, <<r.node>>), r.next) ELSE Failed

ParseUnary(toks, i) ==
    LET t == Tok(toks, i)
    IN  IF t = "-" THEN Negated(ParseUnary(toks, i + 1))
        ELSE IF t = "{" THEN ParseFields(toks, i + 1, <<>>)
        ELSE IF IsNumber(t) THEN Parsed(Node("Number", t, <<>>, <<>>), i + 1)
        ELSE IF t \in StringAtoms THEN Parsed(Node("String", t, <<>>, <<>>), i + 1)
        ELSE IF t \in SymbolWords THEN Parsed(Node("Symbol", t, <<>>, <<>>), i + 1)
        ELSE IF IsName(t) THEN ParseCallTail(toks, Node("Var", t, <<>>, <<>>), i + 1)
        ELSE Failed

BinAfter(toks, left, r) ==
    IF ~r.ok THEN Failed
    ELSE ParseBinTail(toks, Node("BinaryOperator", "-", <<>>, <<left, r.node>>), r.next)

\* Binary minus, left associative, binding weaker than unary minus.
ParseBinTail(toks, left, i) ==
    IF Tok(toks, i) = "-" THEN BinAfter(toks, left, ParseUnary(toks, i + 1))
    ELSE Parsed(left, i)

ExprAfter(toks, u) == IF u.ok THEN ParseBinTail(toks, u.node, u.next) ELSE Failed

ParseExpr(toks, i) == ExprAfter(toks, ParseUnary(toks, i))

RECURSIVE ParseExpList(_, _, _)

ExpListAfter(toks, acc, e) ==
    IF ~e.ok THEN [ok |-> FALSE, returns |-> <<>>, next |-> 0]
    ELSE IF Tok(toks, e.next) = ","
         THEN ParseExpList(toks, e.next + 1, Append(acc, e.node))
    ELSE [ok |-> TRUE, returns |-> Append(acc, e.node), next |-> e.next]

ParseExpList(toks, i, acc) == ExpListAfter(toks, acc, ParseExpr(toks, i))

\* `return [explist] [';']` and the end of the chunk.
ChunkAfter(toks, list) ==
    LET after == IF Tok(toks, list.next) = ";" THEN list.next + 1 ELSE list.next
    IN  IF ~list.ok \/ Tok(toks, after) /= EOF
        THEN [ok |-> FALSE, stmts |-> <<>>, last_stmt |-> None]
        ELSE [ok |-> TRUE, stmts |-> <<>>,
              last_stmt |-> Some([kind |-> "Return", returns |-> list.returns])]

ParseChunk(toks) ==
    IF (\E i \in 1..Len(toks) : toks[i] \in BadAtoms) \/ Tok(toks, 1) /= "return"
    THEN [ok |-> FALSE, stmts |-> <<>>, last_stmt |-> None]
    ELSE IF Tok(toks, 2) \in {EOF, ";"}
    THEN ChunkAfter(toks, [ok |-> TRUE, returns |-> <<>>, next |-> 2])
    ELSE ChunkAfter(toks, ParseExpList(toks, 2, <<>>))

\* full_moon::parse of a chunk that starts with `return`: the return statement is the
\* chunk's last statement, so nothing but an optional ';' may follow its expressions,
\* and no statement precedes it.
parse(text) == ParseChunk(tokens(text))

----------------------------------------------------------------------------
(* ast.rs: the data model *)

Vertex(x, y) == [x |-> x, y |-> y]
Port(edge, position, port_type) == [edge |-> edge, position |-> position, port_type |-> port_type]
Scale(verts, ports) == [verts |-> verts, ports |-> ports]

\* A Shape as both parsers build it: every extended property is None.
PlainShape(id, name, scales, launcher_radial) ==
    [id |-> id, name |-> name, scales |-> scales, launcher_radial |-> launcher_radial,
     mirror_of |-> None, group |-> None, features |-> None,
     fill_color |-> None, fill_color1 |-> None, line_color |-> None,
     durability |-> None, density |-> None, grow_rate |-> None,
     shroud |-> None, cannon |-> None, thruster |-> None]

----------------------------------------------------------------------------
(* parser.rs: the heuristic parser *)

RECURSIVE ScaleLoop(_, _, _, _, _, _)

\* One line of the scan, with its fields already parsed: x and y are the first two
\* parts as f32, edge the first part as usize.
ScaleStep(ls, i, in_verts, in_ports, verts, ports, line, row, x, y, edge, port_type) ==
    LET verts1 == IF in_verts /\ row /\ IsSome(x) /\ IsSome(y)
                  THEN Append(verts, Vertex(x[1], y[1])) ELSE verts
        ports1 == IF in_ports /\ row /\ IsSome(edge) /\ IsSome(y)
                  THEN Append(ports, Port(edge[1], y[1], port_type)) ELSE ports
    IN  IF line = <<"}">> \/ line = <<"}", ",">>
        THEN [scale |-> Scale(verts1, ports1), index |-> i]
        ELSE ScaleLoop(ls, i + 1, in_verts, in_ports, verts1, ports1)

ScaleParts(ls, i, in_verts, in_ports, verts, ports, line, first, second, third) ==
    ScaleStep(ls, i, in_verts, in_ports, verts, ports, line,
              Contains(line, "{") /\ Contains(line, ",") /\ IsSome(second),
              IF IsSome(second) THEN parse_f32(first) ELSE None,
              IF IsSome(second) THEN parse_f32(second[1]) ELSE None,
              IF IsSome(second) THEN parse_usize(first) ELSE None,
              IF IsSome(third) THEN Some(from_str(third[1])) ELSE None)

\* parts = line.trim_matches(..).split(','): the trimmed first part, and the second
\* and third where the line has them (rows with fewer than two parts are skipped).
ScaleRow(ls, i, in_verts, in_ports, verts, ports, line, parts) ==
    ScaleParts(ls, i, in_verts, in_ports, verts, ports, line,
               JoinAtoms(trim(parts[1])),
               IF Len(parts) >= 2 THEN Some(JoinAtoms(trim(parts[2]))) ELSE None,
               IF Len(parts) >= 3 THEN Some(JoinAtoms(trim(parts[3]))) ELSE None)

ScaleLine(ls, i, was_verts, was_ports, verts, ports, line) ==
    ScaleRow(ls, i,
             IF Contains(line, "verts") THEN TRUE
             ELSE IF Contains(line, "ports") THEN FALSE ELSE was_verts,
             IF Contains(line, "verts") THEN FALSE
             ELSE IF Contains(line, "ports") THEN TRUE ELSE was_ports,
             verts, ports, line, split(trim_matches(line), ","))

ScaleLoop(ls, i, was_verts, was_ports, verts, ports) ==
    IF i > Len(ls) THEN [scale |-> Scale(verts, ports), index |-> i]
    ELSE ScaleLine(ls, i, was_verts, was_ports, verts, ports, trim(ls[i]))

\* Returns the scale and the index of the line the scan stopped at.
parse_scale(ls, start_index) == ScaleLoop(ls, start_index, FALSE, FALSE, <<>>, <<>>)

\* brace_level is a usize.  `-=` below zero panics when the build checks overflow and
\* wraps otherwise; a wrapped value v is kept as v - 2^w, its representative nearest
\* zero, so that `> 0` on the usize reads `/= 0` here.
Underflows(level, closes) == level >= 0 /\ level < closes

RECURSIVE ShapeLoop(_, _, _, _, _, _, _)

\* The `verts = {` line of a scale: parse_scale runs from this line and the scan
\* resumes where it stopped; a scale without vertices is dropped.
ShapeScale(id, ls, level, scales, lr, checks, sc) ==
    ShapeLoop(id, ls, sc.index, level,
              IF Len(sc.scale.verts) > 0 THEN Append(scales, sc.scale) ELSE scales,
              lr, checks)

ShapeLine(id, ls, i, brace_level, scales, launcher_radial, checks, line) ==
    LET opened == brace_level + Count(line, "{")
        level == opened - Count(line, "}")
        lr == IF Contains(line, "launcher_radial") THEN Some(TRUE) ELSE launcher_radial
    IN  IF checks /\ Underflows(opened, Count(line, "}"))
        THEN [shape |-> PlainShape(id, None, scales, launcher_radial), index |-> i, panic |-> TRUE]
        ELSE IF Contains(line, "verts") /\ Contains(line, "{")
        THEN ShapeScale(id, ls, level, scales, lr, checks, parse_scale(ls, i))
        ELSE ShapeLoop(id, ls, i + 1, level, scales, lr, checks)

ShapeLoop(id, ls, i, brace_level, scales, launcher_radial, checks) ==
    IF ~(i <= Len(ls) /\ brace_level /= 0)
    THEN [shape |-> PlainShape(id, None, scales, launcher_radial), index |-> i, panic |-> FALSE]
    ELSE ShapeLine(id, ls, i, brace_level, scales, launcher_radial, checks, trim(ls[i]))

\* Returns the shape and the index scanning resumes at.
parse_shape(id, ls, start_index, checks) ==
    ShapeLoop(id, ls, start_index + 1, 1, <<>>, None, checks)

\* Result<ShapesFile, String>, or the panic that unwinds out of the call.  `by` records
\* which parser built the value.
Ok(shapes, by) == [status |-> "Ok", shapes |-> shapes, by |-> by]
Panicked == [status |-> "Panic", shapes |-> <<>>, by |-> "heuristic"]

RECURSIVE LegacyLoop(_, _, _, _)

LegacyShape(ls, shapes, checks, sh) ==
    IF sh.panic THEN Panicked
    ELSE LegacyLoop(ls, sh.index, Append(shapes, sh.shape), checks)

\* A line that opens a shape: `{` first, a comma somewhere, and a first part that
\* parses as the id.
LegacyOpen(ls, i, shapes, checks, line, id) ==
    IF Head(line) = "{" /\ Contains(line, ",") /\ IsSome(id)
    THEN LegacyShape(ls, shapes, checks, parse_shape(id[1], ls, i, checks))
    ELSE LegacyLoop(ls, i + 1, shapes, checks)

LegacyLine(ls, i, shapes, checks, line) ==
    IF Len(line) = 0 \/ Head(line) = "--" THEN LegacyLoop(ls, i + 1, shapes, checks)
    ELSE LegacyOpen(ls, i, shapes, checks, line,
                    parse_usize(JoinAtoms(trim(split(trim_matches(line), ",")[1]))))

LegacyLoop(ls, i, shapes, checks) ==
    IF i > Len(ls) THEN Ok(shapes, "heuristic")
    ELSE LegacyLine(ls, i, shapes, checks, trim(ls[i]))

legacy_parse_shapes(text, checks) == LegacyLoop(lines(text), 1, <<>>, checks)

----------------------------------------------------------------------------
(* parser.rs: the grammar-driven parser *)

IsTable(n) == n.kind = "TableConstructor"

\* format!("{:?}", expr): the Debug rendering of the node, which spells no token
DebugFmt(n) == n.kind \o "(TokenReference { .. })"

Negate_SignKept(num) == Some(num)

\* Unary minus applied to a parsed number (`-num`).
Negate(num) == Some(0 - num)

\* The value a coordinate entry yields, or None when the entry sets nothing: a Number
\* parses as f32 (`.ok()`), and a unary minus over a Number that parses is negated.
CoordOf(e) ==
    IF e.kind = "Number" THEN [set |-> TRUE, v |-> parse_f32(e.text)]
    ELSE IF e.kind = "UnaryOperator" /\ e.text = "-" /\ e.operand[1].kind = "Number"
            /\ IsSome(parse_f32(e.operand[1].text))
         THEN [set |-> TRUE, v |-> Negate(parse_f32(e.operand[1].text)[1])]
    ELSE [set |-> FALSE, v |-> None]

RECURSIVE CoordLoop(_, _, _, _)

CoordStep(fs, m, x, y, val) ==
    CoordLoop(fs, m + 1,
              IF val.set /\ m = 0 THEN val.v ELSE x,
              IF val.set /\ m = 1 THEN val.v ELSE y)

\* The (m, coord) loop of a vertex table; m counts every field, from 0.
CoordLoop(fs, m, x, y) ==
    IF m >= Len(fs) THEN [x |-> x, y |-> y]
    ELSE IF fs[m + 1].fkind /= "NoKey" THEN CoordLoop(fs, m + 1, x, y)
    ELSE CoordStep(fs, m, x, y, CoordOf(fs[m + 1].value))

RECURSIVE VertsLoop(_, _, _)

VertsStep(fs, k, verts, c) ==
    IF IsSome(c.x) /\ IsSome(c.y)
    THEN VertsLoop(fs, k + 1, Append(verts, Vertex(c.x[1], c.y[1])))
    ELSE VertsLoop(fs, k + 1, verts)

VertsLoop(fs, k, verts) ==
    IF k > Len(fs) THEN verts
    ELSE IF fs[k].fkind = "NoKey" /\ IsTable(fs[k].value)
    THEN VertsStep(fs, k, verts, CoordLoop(fs[k].value.fields, 0, None, None))
    ELSE VertsLoop(fs, k + 1, verts)

\* The third entry of a port table: only a Symbol node (true, false, nil) hands its
\* token text to from_str; every other node, a bare identifier (Var) among them, hands
\* its Debug rendering.
PortTypeOfExpr(e) ==
    from_str(IF e.kind = "Symbol" THEN e.text ELSE DebugFmt(e))

RECURSIVE PortFieldLoop(_, _, _, _, _)
PortFieldLoop(fs, m, edge, position, port_type) ==
    IF m >= Len(fs) THEN [edge |-> edge, position |-> position, port_type |-> port_type]
    ELSE
        LET f == fs[m + 1]
            e == f.value
            nokey == f.fkind = "NoKey"
        IN  PortFieldLoop(fs, m + 1,
                IF nokey /\ m = 0 /\ e.kind = "Number" THEN parse_usize(e.text) ELSE edge,
                IF nokey /\ m = 1 /\ e.kind = "Number" THEN parse_f32(e.text) ELSE position,
                IF nokey /\ m = 2 THEN Some(PortTypeOfExpr(e)) ELSE port_type)

RECURSIVE PortsLoop(_, _, _)

PortsStep(fs, k, ports, p) ==
    IF IsSome(p.edge) /\ IsSome(p.position)
    THEN PortsLoop(fs, k + 1, Append(ports, Port(p.edge[1], p.position[1], p.port_type)))
    ELSE PortsLoop(fs, k + 1, ports)

PortsLoop(fs, k, ports) ==
    IF k > Len(fs) THEN ports
    ELSE IF fs[k].fkind = "NoKey" /\ IsTable(fs[k].value)
    THEN PortsStep(fs, k, ports, PortFieldLoop(fs[k].value.fields, 0, None, None, None))
    ELSE PortsLoop(fs, k + 1, ports)

RECURSIVE ScaleFieldLoop(_, _, _, _)
\* The def_field loop of one scale table: verts and ports accumulate over its keys.
ScaleFieldLoop(fs, k, verts, ports) ==
    IF k > Len(fs) THEN Scale(verts, ports)
    ELSE
        LET f == fs[k]
            named == f.fkind = "NameKey"
        IN  IF named /\ f.key = "verts" /\ IsTable(f.value)
            THEN ScaleFieldLoop(fs, k + 1, VertsLoop(f.value.fields, 1, verts), ports)
            ELSE IF named /\ f.key = "ports" /\ IsTable(f.value)
            THEN ScaleFieldLoop(fs, k + 1, verts, PortsLoop(f.value.fields, 1, ports))
            ELSE ScaleFieldLoop(fs, k + 1, verts, ports)

RECURSIVE ScalesLoop(_, _, _)
ScalesLoop(fs, k, scales) ==
    IF k > Len(fs) THEN scales
    ELSE
        LET f == fs[k]
        IN  IF f.fkind = "NoKey" /\ IsTable(f.value)
            THEN ScalesLoop(fs, k + 1,
                            Append(scales, ScaleFieldLoop(f.value.fields, 1, <<>>, <<>>)))
            ELSE ScalesLoop(fs, k + 1, scales)

\* launcher_radial = Some(true), unless the value is the Symbol `false`
LauncherRadialOf(value) ==
    IF value.kind = "Symbol" /\ value.text = "false" THEN Some(FALSE) ELSE Some(TRUE)

RECURSIVE ShapeFieldLoop(_, _, _, _, _)

\* The first field: a Number that parses as usize sets the id.
IdStep(fs, i, id, scales, launcher_radial, parsed) ==
    ShapeFieldLoop(fs, i + 1, IF IsSome(parsed) THEN parsed ELSE id, scales, launcher_radial)

\* The (i, field) loop of extract_shape; i counts every field, from 0.
ShapeFieldLoop(fs, i, id, scales, launcher_radial) ==
    IF i >= Len(fs) THEN [id |-> id, scales |-> scales, launcher_radial |-> launcher_radial]
    ELSE
        LET f == fs[i + 1]
            e == f.value
        IN  IF f.fkind = "NoKey" THEN
                IF i = 0 /\ e.kind = "Number" THEN
                    IdStep(fs, i, id, scales, launcher_radial, parse_usize(e.text))
                ELSE IF i = 1 /\ IsTable(e) THEN
                    ShapeFieldLoop(fs, i + 1, id, ScalesLoop(e.fields, 1, scales), launcher_radial)
                ELSE ShapeFieldLoop(fs, i + 1, id, scales, launcher_radial)
            ELSE IF f.key = "launcher_radial" THEN
                ShapeFieldLoop(fs, i + 1, id, scales, LauncherRadialOf(e))
            ELSE ShapeFieldLoop(fs, i + 1, id, scales, launcher_radial)

ShapeOf_IdDefaulted(r, name) ==
    Some(PlainShape(IF IsSome(r.id) THEN r.id[1] ELSE 0, name, r.scales, r.launcher_radial))

ShapeOf(r, name) ==
    IF IsSome(r.id) THEN Some(PlainShape(r.id[1], name, r.scales, r.launcher_radial))
    ELSE None

\* Option<Shape>; `name` is bound to None and never assigned.
extract_shape(table) == ShapeOf(ShapeFieldLoop(table.fields, 0, None, <<>>, None), None)

RECURSIVE FirstAssignedTable(_, _)
\* The loops over ast.nodes().stmts(): the first assignment whose first expression is a table.
FirstAssignedTable(stmts, k) ==
    IF k > Len(stmts) THEN None
    ELSE IF stmts[k].kind \in {"Assignment", "LocalAssignment"}
            /\ Len(stmts[k].expressions) > 0 /\ IsTable(stmts[k].expressions[1])
         THEN Some(stmts[k].expressions[1])
    ELSE FirstAssignedTable(stmts, k + 1)

RECURSIVE ExtractShapes(_, _, _)

ExtractStep(fs, k, shapes, shape) ==
    IF IsSome(shape) THEN ExtractShapes(fs, k + 1, Append(shapes, shape[1]))
    ELSE ExtractShapes(fs, k + 1, shapes)

ExtractShapes(fs, k, shapes) ==
    IF k > Len(fs) THEN shapes
    ELSE IF fs[k].fkind = "NoKey" /\ IsTable(fs[k].value)
    THEN ExtractStep(fs, k, shapes, extract_shape(fs[k].value))
    ELSE ExtractShapes(fs, k + 1, shapes)

\* The shapes table the grammar-driven parse finds, if any.
FindShapesTable(ast) ==
    IF IsSome(ast.last_stmt) /\ ast.last_stmt[1].kind = "Return"
       /\ Len(ast.last_stmt[1].returns) > 0 /\ IsTable(ast.last_stmt[1].returns[1])
    THEN Some(ast.last_stmt[1].returns[1])
    ELSE FirstAssignedTable(ast.stmts, 1)

ShapesIn(table) ==
    IF IsSome(table) THEN Some(ExtractShapes(table[1].fields, 1, <<>>)) ELSE None

ShapesOfAst(ast) == IF ast.ok THEN ShapesIn(FindShapesTable(ast)) ELSE None

\* The shapes the grammar-driven parse extracts: None when the text is no Lua chunk or
\* holds no table, and then (as for zero shapes) the heuristic parser takes over.
GrammarShapes(text) == ShapesOfAst(parse(<<"return", SP>> \o fix_lua_syntax(text)))

\* Ok of the grammar-driven shapes when there is at least one, the heuristic parser's
\* result otherwise.
Fallback(text, checks, g) ==
    IF IsSome(g) /\ Len(g[1]) > 0 THEN Ok(g[1], "grammar")
    ELSE legacy_parse_shapes(text, checks)

parse_shapes_content(text, checks) == Fallback(text, checks, GrammarShapes(text))

----------------------------------------------------------------------------
(* serializer.rs *)

RECURSIVE join(_, _)
\* [String]::join(sep)
join(ss, sep) ==
    IF Len(ss) = 0 THEN ""
    ELSE IF Len(ss) = 1 THEN ss[1]
    ELSE ss[1] \o sep \o join(Tail(ss), sep)

Quoted(str) == "\"" \o str \o "\""

KeyLine_Twice(n, key, value) ==
    Indent(n) \o <<key, SP, "=", SP>> \o value \o <<",", NL>>
    \o Indent(n) \o <<key, SP, "=", SP>> \o value \o <<",", NL>>

\* One `key = value,` line at indentation n.
KeyLine(n, key, value) == Indent(n) \o <<key, SP, "=", SP>> \o value \o <<",", NL>>


RECURSIVE SerializeVerts(_, _)
SerializeVerts(verts, k) ==
    IF k > Len(verts) THEN <<>>
    ELSE Indent(5) \o <<"{">> \o fmt_f32(verts[k].x) \o <<",", SP>> \o fmt_f32(verts[k].y)
         \o <<"}", ",", NL>> \o SerializeVerts(verts, k + 1)

SerializePort_PositionFirst(p) ==
    Indent(5) \o <<"{">> \o fmt_f32(p.position) \o <<",", SP>> \o fmt_usize(p.edge)
    \o <<"}", ",", NL>>

SerializePort(p) ==
    IF IsSome(p.port_type)
    THEN Indent(5) \o <<"{">> \o fmt_usize(p.edge) \o <<",", SP>> \o fmt_f32(p.position)
         \o <<",", SP, to_str(p.port_type[1]), "}", ",", SP, SP, "--", SP, "Edge", SP>>
         \o fmt_usize(p.edge) \o <<",", SP, "position", SP>> \o fmt_f32(p.position)
         \o <<",", SP, "type", SP, to_str(p.port_type[1]), NL>>
    ELSE Indent(5) \o <<"{">> \o fmt_usize(p.edge) \o <<",", SP>> \o fmt_f32(p.position)
         \o <<"}", ",", NL>>

RECURSIVE SerializePorts(_, _)
SerializePorts(ports, k) ==
    IF k > Len(ports) THEN <<>>
    ELSE SerializePort(ports[k]) \o SerializePorts(ports, k + 1)

\* Scale j (from 0) of a shape with n scales.
SerializeScale(scale, j, n) ==
    Indent(3) \o <<"{", NL>>
    \o Indent(4) \o <<"verts", SP, "=", SP, "{">>
    \o (IF Len(scale.verts) = 0 THEN <<"}">>
        ELSE <<NL>> \o SerializeVerts(scale.verts, 1) \o Indent(4) \o <<"}">>)
    \o <<",", NL>>
    \o Indent(4) \o <<"ports", SP, "=", SP, "{">>
    \o (IF Len(scale.ports) = 0 THEN <<"}">>
        ELSE <<NL>> \o SerializePorts(scale.ports, 1) \o Indent(4) \o <<"}">>)
    \o (IF j < n - 1
        THEN <<NL>> \o Indent(3) \o <<"}", ",", SP, "--", "scale", SP>> \o fmt_usize(j + 1) \o <<NL>>
        ELSE <<NL>> \o Indent(3) \o <<"}", SP, "--", "scale", SP>> \o fmt_usize(j + 1) \o <<NL>>)

RECURSIVE SerializeScales(_, _)
SerializeScales(scales, k) ==
    IF k > Len(scales) THEN <<>>
    ELSE SerializeScale(scales[k], k - 1, Len(scales)) \o SerializeScales(scales, k + 1)

SerializeShroudComponent(c) ==
    Indent(4) \o <<"{", "size", SP, "=", SP, "{">> \o fmt_f32(c.size[1]) \o <<",", SP>>
    \o fmt_f32(c.size[2]) \o <<"}", ",", SP, "offset", SP, "=", SP, "{">>
    \o fmt_f32(c.offset[1]) \o <<",", SP>> \o fmt_f32(c.offset[2]) \o <<",", SP>>
    \o fmt_f32(c.offset[3]) \o <<"}", ",", SP, "taper", SP, "=", SP>> \o fmt_f32(c.taper)
    \o <<",", SP, "count", SP, "=", SP>> \o fmt_usize(c.count)
    \o <<",", SP, "angle", SP, "=", SP>> \o fmt_f32(c.angle)
    \o <<",", SP, "tri_color_id", SP, "=", SP>> \o fmt_usize(c.tri_color_id)
    \o <<",", SP, "tri_color1_id", SP, "=", SP>> \o fmt_usize(c.tri_color1_id)
    \o <<",", SP, "line_color_id", SP, "=", SP>> \o fmt_usize(c.line_color_id)
    \o <<",", SP, "shape", SP, "=", SP, c.shape, "}", ",", NL>>

RECURSIVE SerializeShroud(_, _)
SerializeShroud(shroud, k) ==
    IF k > Len(shroud) THEN <<>>
    ELSE SerializeShroudComponent(shroud[k]) \o SerializeShroud(shroud, k + 1)

SerializeFragment(f) ==
    Indent(4) \o <<"fragment", SP, "=", SP, "{", NL>>
    \o KeyLine(5, "roundsPerBurst", fmt_usize(f.rounds_per_burst))
    \o KeyLine(5, "muzzleVel", fmt_f32(f.muzzle_vel))
    \o KeyLine(5, "spread", fmt_f32(f.spread))
    \o (IF IsSome(f.pattern) THEN KeyLine(5, "pattern", <<Quoted(f.pattern[1])>>) ELSE <<>>)
    \o KeyLine(5, "damage", fmt_f32(f.damage))
    \o KeyLine(5, "range", fmt_f32(f.range))
    \o (IF IsSome(f.color) THEN KeyLine(5, "color", fmt_color(f.color[1])) ELSE <<>>)
    \o Indent(4) \o <<"}", ",", NL>>

SerializeCannon(c) ==
    Indent(3) \o <<"cannon", SP, "=", SP, "{", NL>>
    \o KeyLine(4, "damage", fmt_f32(c.damage))
    \o KeyLine(4, "power", fmt_f32(c.power))
    \o KeyLine(4, "roundsPerSec", fmt_f32(c.rounds_per_sec))
    \o KeyLine(4, "muzzleVel", fmt_f32(c.muzzle_vel))
    \o KeyLine(4, "range", fmt_f32(c.range))
    \o KeyLine(4, "spread", fmt_f32(c.spread))
    \o (IF IsSome(c.rounds_per_burst)
        THEN KeyLine(4, "roundsPerBurst", fmt_usize(c.rounds_per_burst[1])) ELSE <<>>)
    \o (IF IsSome(c.burstyness) THEN KeyLine(4, "burstyness", fmt_f32(c.burstyness[1])) ELSE <<>>)
    \o (IF IsSome(c.color) THEN KeyLine(4, "color", fmt_color(c.color[1])) ELSE <<>>)
    \o (IF IsSome(c.explosive) THEN KeyLine(4, "explosive", <<c.explosive[1]>>) ELSE <<>>)
    \o (IF IsSome(c.fragment) THEN SerializeFragment(c.fragment[1]) ELSE <<>>)
    \o Indent(3) \o <<"}", ",", NL>>

SerializeThruster(t) ==
    Indent(3) \o <<"thruster", SP, "=", SP, "{", NL>>
    \o KeyLine(4, "force", fmt_f32(t.force))
    \o KeyLine(4, "power", fmt_f32(t.power))
    \o (IF IsSome(t.color) THEN KeyLine(4, "color", fmt_color(t.color[1])) ELSE <<>>)
    \o Indent(3) \o <<"}", ",", NL>>

\* Shape i (from 0) of a file with n shapes.
SerializeShape(shape, i, n) ==
    <<IND, "{">> \o fmt_usize(shape.id) \o <<",">>
    \o (IF IsSome(shape.name) THEN <<SP, "--", shape.name[1]>> ELSE <<>>)
    \o <<NL>>
    \o Indent(2) \o <<"{", NL>>
    \o SerializeScales(shape.scales, 1)
    \o (IF IsSome(shape.group) THEN KeyLine(3, "group", fmt_usize(shape.group[1])) ELSE <<>>)
    \o (IF IsSome(shape.features)
        THEN KeyLine(3, "features", <<Quoted(join(shape.features[1], "|"))>>) ELSE <<>>)
    \o (IF IsSome(shape.fill_color) THEN KeyLine(3, "fillColor", fmt_color(shape.fill_color[1])) ELSE <<>>)
    \o (IF IsSome(shape.fill_color1) THEN KeyLine(3, "fillColor1", fmt_color(shape.fill_color1[1])) ELSE <<>>)
    \o (IF IsSome(shape.line_color) THEN KeyLine(3, "lineColor", fmt_color(shape.line_color[1])) ELSE <<>>)
    \o (IF IsSome(shape.durability) THEN KeyLine(3, "durability", fmt_f32(shape.durability[1])) ELSE <<>>)
    \o (IF IsSome(shape.density) THEN KeyLine(3, "density", fmt_f32(shape.density[1])) ELSE <<>>)
    \o (IF IsSome(shape.grow_rate) THEN KeyLine(3, "growRate", fmt_f32(shape.grow_rate[1])) ELSE <<>>)
    \o (IF IsSome(shape.launcher_radial)
        THEN KeyLine(3, "launcher_radial", <<IF shape.launcher_radial[1] THEN "true" ELSE "false">>)
        ELSE <<>>)
    \o (IF IsSome(shape.mirror_of) THEN KeyLine(3, "mirror_of", fmt_usize(shape.mirror_of[1])) ELSE <<>>)
    \o (IF IsSome(shape.shroud)
        THEN Indent(3) \o <<"shroud", SP, "=", SP, "{", NL>>
             \o SerializeShroud(shape.shroud[1], 1) \o Indent(3) \o <<"}", ",", NL>>
        ELSE <<>>)
    \o (IF IsSome(shape.cannon) THEN SerializeCannon(shape.cannon[1]) ELSE <<>>)
    \o (IF IsSome(shape.thruster) THEN SerializeThruster(shape.thruster[1]) ELSE <<>>)
    \o Indent(2) \o <<"}">>
    \o (IF i < n - 1 THEN <<NL, IND, "}", ",", NL>> ELSE <<NL, IND, "}", NL>>)

RECURSIVE SerializeShapes(_, _)
SerializeShapes(shapes, k) ==
    IF k > Len(shapes) THEN <<>>
    ELSE SerializeShape(shapes[k], k - 1, Len(shapes)) \o SerializeShapes(shapes, k + 1)

serialize_shapes_file(sf) == <<"{", NL>> \o SerializeShapes(sf.shapes, 1) \o <<"}", NL>>

----------------------------------------------------------------------------
(* data_structures.rs: the editor's shapes *)

\* Vec indexing, from 0.
At(v, i) == v[i + 1]
\* Vec::remove(i)
Remove(v, i) == SubSeq(v, 1, i) \o SubSeq(v, i + 2, Len(v))
\* v[i] = x
Put(v, i, x) == [v EXCEPT ![i + 1] = x]
\* Vec::last()
Last(v) == IF Len(v) = 0 THEN None ELSE Some(v[Len(v)])

\* PortType::to_string
to_string(t) ==
    CASE t = "Default" -> "DEFAULT"
      [] t = "ThrusterIn" -> "THRUSTER_IN"
      [] t = "ThrusterOut" -> "THRUSTER_OUT"
      [] t = "Missile" -> "MISSILE"
      [] t = "Launcher" -> "LAUNCHER"
      [] t = "WeaponIn" -> "WEAPON_IN"
      [] t = "WeaponOut" -> "WEAPON_OUT"
      [] t = "Root" -> "ROOT"
      [] t = "None" -> "NONE"

\* format!("Shape_{}", id)
ShapeName(id) == "Shape_" \o fmt_usize(id)[1]

\* Shape::new(id)
AppShape(id) ==
    [id |-> id, name |-> ShapeName(id), vertices |-> <<>>, ports |-> <<>>,
     selected_vertex |-> None, selected_port |-> None, launcher_radial |-> FALSE]

\* impl PartialEq for Shape: the selection is left out of the comparison.
ShapeEq(a, b) ==
    /\ a.id = b.id
    /\ a.name = b.name
    /\ a.vertices = b.vertices
    /\ a.ports = b.ports
    /\ a.launcher_radial = b.launcher_radial

\* Vec<Shape> == Vec<Shape>
ShapesEq(s, t) == Len(s) = Len(t) /\ \A k \in 1..Len(s) : ShapeEq(s[k], t[k])

----------------------------------------------------------------------------
(* shape_editor.rs: the editor *)

MAX_UNDO_HISTORY == 100

\* ShapeEditor::new()
ShapeEditor_new ==
    [shapes |-> <<AppShape(1)>>, current_shape_idx |-> 0,
     undo_history |-> << <<AppShape(1)>> >>, redo_history |-> <<>>,
     show_error_dialog |-> FALSE]

\* show_error(title, message)
show_error(e) == [e EXCEPT !.show_error_dialog = TRUE]

save_state_RedoKeptWhenEqual(e) ==
    IF IsSome(Last(e.undo_history)) /\ ShapesEq(Last(e.undo_history)[1], e.shapes)
    THEN e
    ELSE [e EXCEPT !.redo_history = <<>>,
                   !.undo_history =
                       IF Len(@) + 1 > MAX_UNDO_HISTORY
                       THEN Remove(Append(@, e.shapes), 0) ELSE Append(@, e.shapes)]

save_state_Unlimited(e) ==
    IF IsSome(Last(e.undo_history)) /\ ShapesEq(Last(e.undo_history)[1], e.shapes)
    THEN [e EXCEPT !.redo_history = <<>>]
    ELSE [e EXCEPT !.redo_history = <<>>, !.undo_history = Append(@, e.shapes)]

\* save_state(): the redo history is cleared first; the shapes are pushed unless they
\* equal the last snapshot, and the oldest snapshot is dropped past the limit.
save_state(e) ==
    IF IsSome(Last(e.undo_history)) /\ ShapesEq(Last(e.undo_history)[1], e.shapes)
    THEN [e EXCEPT !.redo_history = <<>>]
    ELSE [e EXCEPT !.redo_history = <<>>,
                   !.undo_history =
                       IF Len(@) + 1 > MAX_UNDO_HISTORY
                       THEN Remove(Append(@, e.shapes), 0) ELSE Append(@, e.shapes)]

ClampIdx_Kept(e) == e

\* The index clamp undo and redo apply after replacing the shapes.
ClampIdx(e) ==
    IF e.current_shape_idx >= Len(e.shapes) /\ Len(e.shapes) /= 0
    THEN [e EXCEPT !.current_shape_idx = Len(e.shapes) - 1] ELSE e

\* undo()
undo(e) ==
    IF Len(e.undo_history) > 1
    THEN ClampIdx([e EXCEPT !.redo_history = Append(@, e.shapes),
                            !.undo_history = SubSeq(@, 1, Len(@) - 1),
                            !.shapes = e.undo_history[Len(e.undo_history) - 1]])
    ELSE e

redo_SnapshotTaken(e) ==
    IF Len(e.redo_history) > 0
    THEN ClampIdx([e EXCEPT !.redo_history = SubSeq(@, 1, Len(@) - 1),
                            !.shapes = e.undo_history[Len(e.undo_history)]])
    ELSE e

\* redo()
redo(e) ==
    IF Len(e.redo_history) > 0
    THEN ClampIdx([e EXCEPT !.redo_history = SubSeq(@, 1, Len(@) - 1),
                            !.undo_history = Append(@, e.shapes),
                            !.shapes = e.redo_history[Len(e.redo_history)]])
    ELSE e

\* self.shapes[shape_idx].<field> = value
SetField(e, shape_idx, field, value) ==
    [e EXCEPT !.shapes[shape_idx + 1][field] = value]

\* add_shape()
add_shape(e) ==
    LET s == save_state(e)
    IN  [s EXCEPT !.shapes = Append(@, AppShape(Len(@) + 1)),
                  !.current_shape_idx = Len(s.shapes)]

\* add_or_update_vertex(shape_idx, vertex, vertex_idx)
add_or_update_vertex(e, shape_idx, vertex, vertex_idx) ==
    LET s == save_state(e)
        sh == At(s.shapes, shape_idx)
    IN  IF IsSome(vertex_idx)
        THEN IF vertex_idx[1] < Len(sh.vertices)
             THEN SetField(s, shape_idx, "vertices", Put(sh.vertices, vertex_idx[1], vertex))
             ELSE s
        ELSE [s EXCEPT !.shapes[shape_idx + 1].vertices = Append(@, vertex),
                       !.shapes[shape_idx + 1].selected_vertex = Some(Len(sh.vertices))]

\* The selection after element idx of the list was removed (remove_vertex 206-210,
\* remove_port 248-252).
SelectedAfterRemoval(selected, idx) ==
    IF IsSome(selected) /\ selected[1] >= idx
    THEN (IF selected[1] > 0 THEN Some(selected[1] - 1) ELSE None)
    ELSE selected

RECURSIVE PortsAfterRemoval(_, _, _)
\* The loop of remove_vertex over the ports, from index i.
PortsAfterRemoval(ports, i, vertex_idx) ==
    IF i >= Len(ports) THEN ports
    ELSE IF At(ports, i).edge >= vertex_idx
         THEN IF At(ports, i).edge = vertex_idx
              THEN PortsAfterRemoval(Remove(ports, i), i, vertex_idx)
              ELSE PortsAfterRemoval(
                       Put(ports, i, [At(ports, i) EXCEPT !.edge = @ - 1]), i + 1, vertex_idx)
         ELSE PortsAfterRemoval(ports, i + 1, vertex_idx)

remove_vertex_EdgesKept(e, shape_idx, vertex_idx) ==
    IF vertex_idx < Len(At(e.shapes, shape_idx).vertices)
    THEN LET s == save_state(e)
         IN  [s EXCEPT !.shapes[shape_idx + 1].vertices = Remove(@, vertex_idx),
                       !.shapes[shape_idx + 1].selected_vertex =
                           SelectedAfterRemoval(@, vertex_idx)]
    ELSE e

\* remove_vertex(shape_idx, vertex_idx)
remove_vertex(e, shape_idx, vertex_idx) ==
    IF vertex_idx < Len(At(e.shapes, shape_idx).vertices)
    THEN LET s == save_state(e)
         IN  [s EXCEPT !.shapes[shape_idx + 1].vertices = Remove(@, vertex_idx),
                       !.shapes[shape_idx + 1].selected_vertex =
                           SelectedAfterRemoval(@, vertex_idx),
                       !.shapes[shape_idx + 1].ports = PortsAfterRemoval(@, 0, vertex_idx)]
    ELSE e

\* add_port(shape_idx, port)
add_port(e, shape_idx, port) ==
    LET s == save_state(e)
    IN  [s EXCEPT !.shapes[shape_idx + 1].ports = Append(@, port)]

\* remove_port(shape_idx, port_idx)
remove_port(e, shape_idx, port_idx) ==
    IF port_idx < Len(At(e.shapes, shape_idx).ports)
    THEN LET s == save_state(e)
         IN  [s EXCEPT !.shapes[shape_idx + 1].ports = Remove(@, port_idx),
                       !.shapes[shape_idx + 1].selected_port =
                           SelectedAfterRemoval(@, port_idx)]
    ELSE e

\* convert_to_ast_shape(app_shape)
convert_to_ast_shape(app_shape) ==
    PlainShape(app_shape.id, Some(app_shape.name),
               <<Scale([k \in 1..Len(app_shape.vertices) |->
                           Vertex(app_shape.vertices[k].x, app_shape.vertices[k].y)],
                       [k \in 1..Len(app_shape.ports) |->
                           Port(app_shape.ports[k].edge, app_shape.ports[k].position,
                                Some(from_str(to_string(app_shape.ports[k].port_type))))])>>,
               IF app_shape.launcher_radial THEN Some(TRUE) ELSE None)

\* convert_from_ast_shape(ast_shape): the first scale only; a port without type is Default.
convert_from_ast_shape(ast_shape) ==
    [AppShape(ast_shape.id) EXCEPT
        !.name = IF IsSome(ast_shape.name) THEN ast_shape.name[1] ELSE @,
        !.vertices = IF Len(ast_shape.scales) > 0 THEN ast_shape.scales[1].verts ELSE @,
        !.ports =
            IF Len(ast_shape.scales) > 0
            THEN [k \in 1..Len(ast_shape.scales[1].ports) |->
                     [edge |-> ast_shape.scales[1].ports[k].edge,
                      position |-> ast_shape.scales[1].ports[k].position,
                      port_type |-> IF IsSome(ast_shape.scales[1].ports[k].port_type)
                                    THEN ast_shape.scales[1].ports[k].port_type[1]
                                    ELSE "Default"]]
            ELSE @,
        !.launcher_radial =
            IF IsSome(ast_shape.launcher_radial) THEN ast_shape.launcher_radial[1] ELSE @]

\* parse_lua_shapes(content), given what parse_shapes_content returned
ConvertParsed(r) ==
    IF r.status = "Ok"
    THEN [status |-> "Ok", shapes |-> [k \in 1..Len(r.shapes) |-> convert_from_ast_shape(r.shapes[k])]]
    ELSE [status |-> r.status, shapes |-> <<>>]

parse_lua_shapes(text, checks) == ConvertParsed(parse_shapes_content(text, checks))

\* What a call on the editor leaves: the editor and the value returned.
Outcome(e, status) == [editor |-> e, status |-> status]

ImportParsed_IndexReset(s, r) ==
    IF r.status = "Ok"
    THEN Outcome(IF Len(r.shapes) /= 0
                 THEN [s EXCEPT !.shapes = r.shapes, !.current_shape_idx = 0]
                 ELSE [s EXCEPT !.current_shape_idx = 0], "Ok")
    ELSE IF r.status = "Err" THEN Outcome(show_error(s), "Err")
    ELSE Outcome(s, "Panic")

\* import_shapes(), after the file was read: the match on parse_lua_shapes.
ImportParsed(s, r) ==
    IF r.status = "Ok"
    THEN Outcome(IF Len(r.shapes) /= 0
                 THEN [s EXCEPT !.shapes = r.shapes, !.current_shape_idx = 0] ELSE s, "Ok")
    ELSE IF r.status = "Err" THEN Outcome(show_error(s), "Err")
    ELSE Outcome(s, "Panic")

\* import_shapes() on a file that can or cannot be read
import_shapes(e, can_read, text, checks) ==
    IF can_read
    THEN ImportParsed(save_state(e), parse_lua_shapes(text, checks))
    ELSE Outcome(show_error(save_state(e)), "Err")

\* export_shapes(): the text handed to fs::write
export_shapes(e) ==
    serialize_shapes_file(
        [shapes |-> [k \in 1..Len(e.shapes) |-> convert_to_ast_shape(e.shapes[k])]])

----------------------------------------------------------------------------
(* ui.rs: the edits the panels and the canvas apply *)

\* ShapeEdit::UpdateName(name)
UpdateName(e, name) == SetField(save_state(e), e.current_shape_idx, "name", name)

\* ShapeEdit::UpdateVertex(idx, vertex)
UpdateVertex(e, idx, vertex) ==
    LET s == save_state(e)
        sh == At(s.shapes, e.current_shape_idx)
    IN  IF idx < Len(sh.vertices)
        THEN SetField(s, e.current_shape_idx, "vertices", Put(sh.vertices, idx, vertex))
        ELSE s

\* ShapeEdit::UpdatePort(idx, port)
UpdatePort(e, idx, port) ==
    LET s == save_state(e)
        sh == At(s.shapes, e.current_shape_idx)
    IN  IF idx < Len(sh.ports)
        THEN SetField(s, e.current_shape_idx, "ports", Put(sh.ports, idx, port))
        ELSE s

\* ShapeEdit::SelectVertex(idx), and a click on a vertex
SelectVertex(e, idx) ==
    [e EXCEPT !.shapes[e.current_shape_idx + 1].selected_vertex = idx,
              !.shapes[e.current_shape_idx + 1].selected_port = None]

\* ShapeEdit::SelectPort(idx), and a click on a port
SelectPort(e, idx) ==
    [e EXCEPT !.shapes[e.current_shape_idx + 1].selected_port = idx,
              !.shapes[e.current_shape_idx + 1].selected_vertex = None]

\* ShapeEdit::ToggleLauncherRadial(launcher_radial)
ToggleLauncherRadial(e, launcher_radial) ==
    SetField(save_state(e), e.current_shape_idx, "launcher_radial", launcher_radial)

\* The Delete or Backspace key on the canvas
DeleteSelected(e) ==
    LET sh == At(e.shapes, e.current_shape_idx)
    IN  IF IsSome(sh.selected_vertex)
        THEN remove_vertex(e, e.current_shape_idx, sh.selected_vertex[1])
        ELSE IF IsSome(sh.selected_port)
             THEN remove_port(e, e.current_shape_idx, sh.selected_port[1])
             ELSE e

\* Alt and a click on an edge: a Default port is added there and selected.
AddPortOnEdge(e, edge_idx, edge_position) ==
    LET s == add_port(e, e.current_shape_idx,
                      [edge |-> edge_idx, position |-> edge_position, port_type |-> "Default"])
    IN  SelectPort(s, Some(Len(At(s.shapes, e.current_shape_idx).ports) - 1))

\* A drag on the canvas indexes the selected vertex, or else the selected port.
DragPanics(e) ==
    LET sh == At(e.shapes, e.current_shape_idx)
    IN  IF IsSome(sh.selected_vertex) THEN sh.selected_vertex[1] >= Len(sh.vertices)
        ELSE IsSome(sh.selected_port) /\ sh.selected_port[1] >= Len(sh.ports)

\* One frame of a drag that indexes in range: the selected vertex goes to the pointer,
\* or else the selected port to the nearest position of its edge.
Dragged(e, drag_started, shape_coords, new_position) ==
    LET s == IF drag_started THEN save_state(e) ELSE e
        sh == At(s.shapes, e.current_shape_idx)
    IN  IF IsSome(sh.selected_vertex)
        THEN SetField(s, e.current_shape_idx, "vertices",
                      Put(sh.vertices, sh.selected_vertex[1], shape_coords))
        ELSE IF IsSome(sh.selected_port)
             THEN IF /\ At(sh.ports, sh.selected_port[1]).edge < Len(sh.vertices)
                     /\ At(sh.vertices, At(sh.ports, sh.selected_port[1]).edge)
                            /= At(sh.vertices, (At(sh.ports, sh.selected_port[1]).edge + 1)
                                                   % Len(sh.vertices))
                  THEN [s EXCEPT !.shapes[e.current_shape_idx + 1]
                                     .ports[sh.selected_port[1] + 1].position = new_position]
                  ELSE s
             ELSE e

----------------------------------------------------------------------------
(* Input files *)

MaxVerts == 2
MaxPorts == 2
MaxText == 3

\* A coordinate as written: a decimal literal, or a minus sign and a decimal literal.
CoordLits == {<<"5">>, <<"3.5">>, <<"-", "5">>, <<"-", "3.5">>}
VertexLits == CoordLits \X CoordLits
\* The third entry of a port as written: absent (""), a PortType token, or another word.
ThirdLits == {""} \cup {to_str(t) : t \in PortTypes} \cup {"BOGUS"}

SeqsUpTo(S, n) == UNION {[1..k -> S] : k \in 0..n}

\* The file of the specification's first scenario (ast.rs gives the same layout).
Scenario1 ==
    [head |-> "comma_comment", layout |-> "inline", indent |-> <<IND>>, count |-> 1,
     join |-> "comma", lr |-> "absent", tail |-> "closed",
     verts |-> << <<<<"5">>, <<"-", "5">>>>, <<<<"-", "5">>, <<"-", "5">>>>,
                  <<<<"-", "5">>, <<"5">>>>, <<<<"5">>, <<"5">>>> >>,
     thirds |-> <<"", "THRUSTER_OUT">>,
     ids |-> << <<"5001">>, <<"5002">>, <<"10">> >>]

\* First entries of a shape table that are no unsigned integer literal: a decimal
\* fraction, a negated number, an identifier.
BadIds == {<<"3.5">>, <<"-", "5">>, <<"BOGUS">>}

\* Vertex rows of one, three and no entries, rows with an entry that is no number, and
\* a row of two numbers.
OddRows == {<<>>, << <<"5">> >>, << <<"5">>, <<"3.5">>, <<"-", "5">> >>,
            << <<"BOGUS">>, <<"5">> >>, << <<"5">>, <<"BOGUS">> >>,
            << <<"-", "5">>, <<"3.5">> >>}

Heads == {"comma_comment", "comma", "nocomma_comment"}
Layouts == {"inline", "perline"}
LauncherRadials == {"absent", "bare", "eq_true", "eq_false", "tight_true", "tight_false"}
Tails == {"closed", "unterminated", "overclosed"}

Files ==
    {[Scenario1 EXCEPT !.head = h, !.layout = l, !.lr = r, !.tail = t] :
        h \in Heads, l \in Layouts, r \in LauncherRadials, t \in Tails}
    \cup {[Scenario1 EXCEPT !.indent = i, !.count = 2, !.join = j, !.lr = r] :
        i \in {<<>>, <<TAB>>, <<IND>>}, j \in {"comma", "none"},
        r \in {"absent", "bare", "eq_false"}}
    \cup {[Scenario1 EXCEPT !.layout = l, !.head = h, !.verts = v] :
        l \in Layouts, h \in {"comma_comment", "comma"}, v \in SeqsUpTo(VertexLits, MaxVerts)}
    \cup {[Scenario1 EXCEPT !.layout = l, !.thirds = p] :
        l \in Layouts, p \in SeqsUpTo(ThirdLits, MaxPorts)}
    \cup {[Scenario1 EXCEPT !.count = 3, !.ids = i] :
        i \in ({Scenario1.ids[1]} \cup BadIds) \X ({Scenario1.ids[2]} \cup BadIds)
               \X ({Scenario1.ids[3]} \cup BadIds)}
    \cup {[Scenario1 EXCEPT !.ids[1] = i] : i \in BadIds}
    \cup {[Scenario1 EXCEPT !.layout = l, !.verts = v] :
        l \in Layouts, v \in SeqsUpTo(OddRows, MaxVerts)}

\* Rows `{a, b}` of a verts or ports block: on one line separated by commas, or one
\* per line each followed by a comma (the layout of project_generator.rs).
RECURSIVE Rows(_, _, _, _)
Rows(rows, k, layout, ind) ==
    IF k > Len(rows) THEN <<>>
    ELSE IF layout = "inline"
    THEN (IF k = 1 THEN ind ELSE <<>>) \o <<"{">> \o rows[k] \o <<"}">>
         \o (IF k < Len(rows) THEN <<",">> ELSE <<NL>>) \o Rows(rows, k + 1, layout, ind)
    ELSE ind \o <<"{">> \o rows[k] \o <<"}", ",", NL>> \o Rows(rows, k + 1, layout, ind)

RECURSIVE VertexRow(_, _)
\* The entries of a row, separated by commas.
VertexRow(v, layout) ==
    IF Len(v) = 0 THEN <<>>
    ELSE IF Len(v) = 1 THEN v[1]
    ELSE v[1] \o (IF layout = "inline" THEN <<",">> ELSE <<",", SP>>)
         \o VertexRow(Tail(v), layout)

PortRow(k, third, layout) ==
    LET sep == IF layout = "inline" THEN <<",">> ELSE <<",", SP>>
    IN  fmt_usize(k - 1) \o sep \o <<"0.5">> \o (IF third = "" THEN <<>> ELSE sep \o <<third>>)

LauncherRadialText(r) ==
    CASE r = "bare" -> <<"launcher_radial">>
      [] r = "eq_true" -> <<"launcher_radial", SP, "=", SP, "true">>
      [] r = "eq_false" -> <<"launcher_radial", SP, "=", SP, "false">>
      [] r = "tight_true" -> <<"launcher_radial", "=", "true">>
      [] r = "tight_false" -> <<"launcher_radial", "=", "false">>

\* One shape table, written at indentation `ind`, closed by `close`.
ShapeText(f, id, name, ind, close) ==
    LET in1 == ind \o <<IND>>
        in2 == in1 \o <<IND>>
        in3 == in2 \o <<IND>>
        in4 == in3 \o <<IND>>
    IN  ind \o <<"{">> \o id
        \o (CASE f.head = "comma_comment" -> <<",", SP, "--", name>>
              [] f.head = "comma" -> <<",">>
              [] f.head = "nocomma_comment" -> <<SP, "--", name>>)
        \o <<NL>>
        \o in1 \o <<"{", NL>>
        \o in2 \o <<"{", NL>>
        \o in3 \o <<"verts", "=", "{", NL>>
        \o Rows([k \in 1..Len(f.verts) |-> VertexRow(f.verts[k], f.layout)], 1, f.layout, in4)
        \o in3 \o <<"}", ",", NL>>
        \o in3 \o <<"ports", "=", "{", NL>>
        \o Rows([k \in 1..Len(f.thirds) |-> PortRow(k, f.thirds[k], f.layout)], 1, f.layout, in4)
        \o in3 \o <<"}", NL>>
        \o in2 \o <<"}", NL>>
        \o in1 \o <<"}">>
        \o (IF f.lr = "absent" THEN <<NL>>
            ELSE <<",", NL>> \o in1 \o LauncherRadialText(f.lr) \o <<NL>>)
        \o ind \o close \o <<NL>>

\* The text of a file.
Render(f) ==
    <<"{", NL>>
    \o (IF f.count >= 2
        THEN ShapeText(f, f.ids[1], "Square", f.indent,
                       IF f.join = "comma" THEN <<"}", ",">> ELSE <<"}">>)
             \o ShapeText(f, f.ids[2], "Second", f.indent, <<"}", ",">>)
             \o (IF f.count = 3
                 THEN ShapeText(f, f.ids[3], "Third", f.indent, <<"}", ",">>) ELSE <<>>)
        ELSE ShapeText(f, f.ids[1], "Square", f.indent,
                       IF f.tail = "overclosed" THEN <<"}", "}", ",">> ELSE <<"}", ",">>))
    \o (IF f.tail = "unterminated" THEN <<>> ELSE <<"}", NL>>)

\* The files with the scenario's rows: every head, layout, launcher_radial form, tail,
\* indentation, joint and id.
ScanFiles == {f \in Files : f.verts = Scenario1.verts /\ f.thirds = Scenario1.thirds}

\* Short texts over the lexemes the repair pass and the line scanner look for.
TextAtoms == {"{", "}", ",", NL, TAB, "launcher_radial", "=", "true", "false", "5001", "@"}
Texts == SeqsUpTo(TextAtoms, MaxText)

----------------------------------------------------------------------------
(* Data models handed to the serializer *)

MaxScales == 2

V1 == Vertex(500, -500)
V2 == Vertex(-350, 50)
ModelVerts == {<<>>, <<V1>>, <<V1, V2>>}
ModelPorts ==
    {<<>>, <<Port(0, 50, None)>>}
    \cup {<<Port(0, 50, None), Port(1, 25, Some(t))>> : t \in PortTypes}
ModelScales == {Scale(v, p) : v \in ModelVerts, p \in ModelPorts}

Fragment == [rounds_per_burst |-> 3, muzzle_vel |-> 1000, spread |-> 50,
             pattern |-> Some("spiral"), damage |-> 500, range |-> 1000,
             color |-> Some(16777215)]
Cannon == [damage |-> 500, power |-> 200, rounds_per_sec |-> 350, muzzle_vel |-> 1000,
           range |-> 1000, spread |-> 25, rounds_per_burst |-> Some(3),
           burstyness |-> Some(50), color |-> Some(1126519), explosive |-> Some("ENABLED"),
           fragment |-> Some(Fragment)]
Thruster == [force |-> 1000, power |-> 100, color |-> Some(1126519)]
Shroud == <<[size |-> <<100, 200>>, offset |-> <<0, 50, -100>>, taper |-> 100, count |-> 2,
             angle |-> 0, tri_color_id |-> 0, tri_color1_id |-> 1, line_color_id |-> 2,
             shape |-> "SQUARE"]>>

\* Every extended property present.
FullShape(id, name, scales, launcher_radial) ==
    [PlainShape(id, name, scales, launcher_radial) EXCEPT
        !.mirror_of = Some(5002), !.group = Some(3),
        !.features = Some(<<"TURRET", "CANNON">>),
        !.fill_color = Some(1126519), !.fill_color1 = Some(16777215),
        !.line_color = Some(1126519), !.durability = Some(50), !.density = Some(25),
        !.grow_rate = Some(350), !.shroud = Some(Shroud), !.cannon = Some(Cannon),
        !.thruster = Some(Thruster)]

ExtendedKeys == {"mirror_of", "group", "features", "fill_color", "fill_color1", "line_color",
                 "durability", "density", "grow_rate", "shroud", "cannon", "thruster"}

\* Exactly one extended property present.
OneProperty(shape, key) ==
    [f \in DOMAIN shape |->
        IF f = key THEN FullShape(0, None, <<>>, None)[f] ELSE shape[f]]

Basic == PlainShape(5001, None, <<Scale(<<V1, V2>>, <<Port(0, 50, None)>>)>>, None)

\* The scales of shapes with several levels of detail.
FewScales == {Scale(<<>>, <<>>), Scale(<<V1, V2>>, <<Port(0, 50, None)>>),
              Scale(<<V1>>, <<Port(0, 25, Some("Root"))>>)}

ModelShapes ==
    {PlainShape(5001, n, <<s>>, r) :
        n \in {None, Some("Square")}, s \in ModelScales, r \in {None, Some(TRUE), Some(FALSE)}}
    \cup {PlainShape(5001, None, ss, None) : ss \in SeqsUpTo(FewScales, MaxScales)}
    \cup {OneProperty(Basic, k) : k \in ExtendedKeys}
    \cup {FullShape(5001, n, Basic.scales, r) :
        n \in {None, Some("Square")}, r \in {None, Some(TRUE), Some(FALSE)}}

Models ==
    {[shapes |-> <<>>]}
    \cup {[shapes |-> <<sh>>] : sh \in ModelShapes}
    \cup {[shapes |-> <<sh, [Basic EXCEPT !.id = 5002]>>] :
            sh \in {PlainShape(5001, None, ss, None) : ss \in SeqsUpTo(FewScales, MaxScales)}}

\* Models of two shapes, and one-lexeme texts, handed to the heuristic parser directly.
ScanModels == {m \in Models : Len(m.shapes) = 2}
ScanTexts == SeqsUpTo(TextAtoms, 1)

----------------------------------------------------------------------------
(* parser.rs: the heuristic parser, one loop iteration at a time *)

\* The locals of legacy_parse_shapes (i, shapes), of the parse_shape call in progress
\* (id, j, brace_level, scales, launcher_radial) and of the parse_scale call in
\* progress (k, in_verts, in_ports, verts, ports); phase names the loop that runs.
\* Indices count lines from 1.
NoScan ==
    [phase |-> "idle", ls |-> <<>>, i |-> 0, shapes |-> <<>>,
     id |-> 0, j |-> 0, brace_level |-> 0, scales |-> <<>>, launcher_radial |-> None,
     k |-> 0, in_verts |-> FALSE, in_ports |-> FALSE, verts |-> <<>>, ports |-> <<>>]

\* Entry of legacy_parse_shapes: the lines are collected and i = 0.
StartScan(text) == [NoScan EXCEPT !.phase = "legacy", !.ls = lines(text), !.i = 1]

\* A line that opens a shape enters parse_shape, which starts on the next line at
\* brace level 1; any other line is stepped over.
LegacyIterOpen(s, line, id) ==
    IF Head(line) = "{" /\ Contains(line, ",") /\ IsSome(id)
    THEN [s EXCEPT !.phase = "shape", !.id = id[1], !.j = s.i + 1, !.brace_level = 1,
                   !.scales = <<>>, !.launcher_radial = None]
    ELSE [s EXCEPT !.i = @ + 1]

LegacyIterLine(s, line) ==
    IF Len(line) = 0 \/ Head(line) = "--" THEN [s EXCEPT !.i = @ + 1]
    ELSE LegacyIterOpen(s, line,
                        parse_usize(JoinAtoms(trim(split(trim_matches(line), ",")[1]))))

\* One iteration of the `while i < lines.len()` loop of legacy_parse_shapes, or its exit.
LegacyIter(s) ==
    IF s.i > Len(s.ls) THEN [s EXCEPT !.phase = "done"]
    ELSE LegacyIterLine(s, trim(s.ls[s.i]))

\* Return of parse_shape: the shape is pushed and legacy_parse_shapes resumes at j.
ShapeReturn(s) ==
    [s EXCEPT !.phase = "legacy", !.i = s.j,
              !.shapes = Append(@, PlainShape(s.id, None, s.scales, s.launcher_radial))]

ShapeIterLine(s, checks, line) ==
    LET opened == s.brace_level + Count(line, "{")
        level == opened - Count(line, "}")
        lr == IF Contains(line, "launcher_radial") THEN Some(TRUE) ELSE s.launcher_radial
    IN  IF checks /\ Underflows(opened, Count(line, "}"))
        THEN [s EXCEPT !.phase = "panic"]
        ELSE IF Contains(line, "verts") /\ Contains(line, "{")
        THEN [s EXCEPT !.phase = "scale", !.brace_level = level, !.launcher_radial = lr,
                       !.k = s.j, !.in_verts = FALSE, !.in_ports = FALSE,
                       !.verts = <<>>, !.ports = <<>>]
        ELSE [s EXCEPT !.brace_level = level, !.launcher_radial = lr, !.j = @ + 1]

\* One iteration of the `while i < lines.len() && brace_level > 0` loop of parse_shape,
\* or its exit.
ShapeIter(s, checks) ==
    IF ~(s.j <= Len(s.ls) /\ s.brace_level /= 0) THEN ShapeReturn(s)
    ELSE ShapeIterLine(s, checks, trim(s.ls[s.j]))

ScaleReturn_SameLine(s, verts, ports) ==
    [s EXCEPT !.phase = "shape", !.verts = verts, !.ports = ports,
              !.scales = IF Len(verts) > 0 THEN Append(@, Scale(verts, ports)) ELSE @]

\* Return of parse_scale: parse_shape keeps the scale if it has vertices and resumes
\* at the index returned.
ScaleReturn(s, verts, ports) ==
    [s EXCEPT !.phase = "shape", !.j = s.k, !.verts = verts, !.ports = ports,
              !.scales = IF Len(verts) > 0 THEN Append(@, Scale(verts, ports)) ELSE @]

ScaleIterStep(s, line, in_verts, in_ports, row, x, y, edge, port_type) ==
    LET verts1 == IF in_verts /\ row /\ IsSome(x) /\ IsSome(y)
                  THEN Append(s.verts, Vertex(x[1], y[1])) ELSE s.verts
        ports1 == IF in_ports /\ row /\ IsSome(edge) /\ IsSome(y)
                  THEN Append(s.ports, Port(edge[1], y[1], port_type)) ELSE s.ports
    IN  IF line = <<"}">> \/ line = <<"}", ",">>
        THEN ScaleReturn([s EXCEPT !.in_verts = in_verts, !.in_ports = in_ports], verts1, ports1)
        ELSE [s EXCEPT !.in_verts = in_verts, !.in_ports = in_ports,
                       !.verts = verts1, !.ports = ports1, !.k = @ + 1]

ScaleIterParts(s, line, in_verts, in_ports, first, second, third) ==
    ScaleIterStep(s, line, in_verts, in_ports,
                  Contains(line, "{") /\ Contains(line, ",") /\ IsSome(second),
                  IF IsSome(second) THEN parse_f32(first) ELSE None,
                  IF IsSome(second) THEN parse_f32(second[1]) ELSE None,
                  IF IsSome(second) THEN parse_usize(first) ELSE None,
                  IF IsSome(third) THEN Some(from_str(third[1])) ELSE None)

ScaleIterRow(s, line, in_verts, in_ports, parts) ==
    ScaleIterParts(s, line, in_verts, in_ports,
                   JoinAtoms(trim(parts[1])),
                   IF Len(parts) >= 2 THEN Some(JoinAtoms(trim(parts[2]))) ELSE None,
                   IF Len(parts) >= 3 THEN Some(JoinAtoms(trim(parts[3]))) ELSE None)

ScaleIterLine(s, line) ==
    ScaleIterRow(s, line,
                 IF Contains(line, "verts") THEN TRUE
                 ELSE IF Contains(line, "ports") THEN FALSE ELSE s.in_verts,
                 IF Contains(line, "verts") THEN FALSE
                 ELSE IF Contains(line, "ports") THEN TRUE ELSE s.in_ports,
                 split(trim_matches(line), ","))

\* One iteration of the `while i < lines.len()` loop of parse_scale, or its exit.
ScaleIter(s) ==
    IF s.k > Len(s.ls) THEN ScaleReturn(s, s.verts, s.ports)
    ELSE ScaleIterLine(s, trim(s.ls[s.k]))

----------------------------------------------------------------------------
(* The calls *)

NoEditor ==
    [shapes |-> <<>>, current_shape_idx |-> 0, undo_history |-> <<>>, redo_history |-> <<>>,
     show_error_dialog |-> FALSE]
NoOp == [op |-> "", arg |-> 0, prev |-> "", before |-> <<>>, n |-> 0]

NoFile == [head |-> "", layout |-> "", indent |-> <<>>, count |-> 0, join |-> "",
           lr |-> "", tail |-> "", verts |-> <<>>, thirds |-> <<>>, ids |-> <<>>]
NoResult == [status |-> "", shapes |-> <<>>, by |-> ""]
NoModel == [shapes |-> <<>>]

Tokens == {to_str(t) : t \in PortTypes}
          \cup {"BOGUS", "", "none", "Root", "thruster_out", "THRUSTER", "WEAPON_IN ", "true"}

Init ==
    /\ editor = NoEditor /\ last = NoOp
    /\ result = NoResult
    /\ trail = <<>>
    /\ scan = NoScan
    /\ \/ /\ mode = "file"
          /\ file \in Files
          /\ content = Render(file)
          /\ overflow_checks \in BOOLEAN
          /\ shapes_file = NoModel /\ token = "" /\ tag = ""
          /\ pc = "text" /\ readable = TRUE
       \/ /\ mode = "text"
          /\ content \in Texts
          /\ overflow_checks \in BOOLEAN
          /\ file = NoFile /\ shapes_file = NoModel /\ token = "" /\ tag = ""
          /\ pc = "text" /\ readable = TRUE
       \/ /\ mode = "model"
          /\ shapes_file \in Models
          /\ overflow_checks \in BOOLEAN
          /\ file = NoFile /\ content = <<>> /\ token = "" /\ tag = ""
          /\ pc = "model" /\ readable = TRUE
       \/ /\ mode = "tag"
          /\ tag \in PortTypes
          /\ token = "" /\ pc = "tag" /\ readable = TRUE
          /\ overflow_checks = FALSE /\ file = NoFile /\ content = <<>> /\ shapes_file = NoModel
       \/ /\ mode = "token"
          /\ token \in Tokens
          /\ tag = "" /\ pc = "token" /\ readable = TRUE
          /\ overflow_checks = FALSE /\ file = NoFile /\ content = <<>> /\ shapes_file = NoModel
       \/ /\ mode = "scan"
          /\ \/ file \in ScanFiles /\ content = Render(file) /\ shapes_file = NoModel
             \/ /\ file = NoFile
                /\ shapes_file \in ScanModels
                /\ content = serialize_shapes_file(shapes_file)
             \/ file = NoFile /\ content \in ScanTexts /\ shapes_file = NoModel
          /\ overflow_checks \in BOOLEAN
          /\ token = "" /\ tag = ""
          /\ pc = "text" /\ readable = TRUE
       \/ /\ mode = "path"
          /\ file \in ScanFiles
          /\ content = Render(file)
          /\ readable \in BOOLEAN
          /\ overflow_checks \in BOOLEAN
          /\ shapes_file = NoModel /\ token = "" /\ tag = ""
          /\ pc = "path"

\* parse_shapes_content(&content)
ParseShapesContent ==
    /\ pc \in {"text", "serialized"}
    /\ mode \in {"file", "text", "model"}
    /\ result' = parse_shapes_content(content, overflow_checks)
    /\ pc' = "parsed"
    /\ UNCHANGED <<mode, overflow_checks, file, content, shapes_file, trail, token, tag, scan, readable, editor, last>>

MaxRepairs == 2

\* fix_lua_syntax, applied to the text and then to its own output
FixLuaSyntax ==
    /\ pc \in {"text", "fixed"}
    /\ mode \in {"file", "text"}
    /\ Len(trail) < MaxRepairs
    /\ trail' = Append(trail, fix_lua_syntax(IF Len(trail) = 0 THEN content ELSE trail[Len(trail)]))
    /\ pc' = "fixed"
    /\ UNCHANGED <<mode, overflow_checks, file, content, shapes_file, result, token, tag, scan, readable, editor, last>>

\* serialize_shapes_file(&shapes_file)
SerializeShapesFile ==
    /\ pc = "model"
    /\ content' = serialize_shapes_file(shapes_file)
    /\ pc' = "serialized"
    /\ UNCHANGED <<mode, overflow_checks, file, shapes_file, result, trail, token, tag, scan, readable, editor, last>>

\* tag.to_str()
ToStr ==
    /\ pc = "tag"
    /\ token' = to_str(tag)
    /\ pc' = "token"
    /\ UNCHANGED <<mode, overflow_checks, file, content, shapes_file, result, trail, tag, scan, readable, editor, last>>

\* PortType::from_str(&token); the tag returned is kept in result.by
FromStr ==
    /\ pc = "token"
    /\ result' = [status |-> "Tag", shapes |-> <<>>, by |-> from_str(token)]
    /\ pc' = "read"
    /\ UNCHANGED <<mode, overflow_checks, file, content, shapes_file, trail, token, tag, scan, readable, editor, last>>

\* legacy_parse_shapes(&content), entered
LegacyParseShapes ==
    /\ mode = "scan" /\ pc = "text"
    /\ scan' = StartScan(content)
    /\ pc' = "scanning"
    /\ UNCHANGED <<mode, overflow_checks, file, content, shapes_file, result, trail, token, tag,
                   readable, editor, last>>

\* What the caller of legacy_parse_shapes holds once the scan s has stopped.
Returned(s, before) ==
    IF s.phase = "done" THEN Ok(s.shapes, "heuristic")
    ELSE IF s.phase = "panic" THEN Panicked
    ELSE before

Position(s) == IF s.phase \in {"done", "panic"} THEN "scanned" ELSE "scanning"

LegacyIteration ==
    /\ pc = "scanning" /\ scan.phase = "legacy"
    /\ scan' = LegacyIter(scan)
    /\ result' = Returned(scan', result)
    /\ pc' = Position(scan')
    /\ UNCHANGED <<mode, overflow_checks, file, content, shapes_file, trail, token, tag, readable, editor, last>>

ShapeIteration ==
    /\ pc = "scanning" /\ scan.phase = "shape"
    /\ scan' = ShapeIter(scan, overflow_checks)
    /\ result' = Returned(scan', result)
    /\ pc' = Position(scan')
    /\ UNCHANGED <<mode, overflow_checks, file, content, shapes_file, trail, token, tag, readable, editor, last>>

ScaleIteration ==
    /\ pc = "scanning" /\ scan.phase = "scale"
    /\ scan' = ScaleIter(scan)
    /\ UNCHANGED <<mode, overflow_checks, file, content, shapes_file, result, trail, token, tag,
                   pc, readable, editor, last>>

from_io_error_AsParseError == [status |-> "Err", shapes |-> <<>>, by |-> "ParseError"]

\* impl From<io::Error> for ParseError
from_io_error == [status |-> "Err", shapes |-> <<>>, by |-> "IoError"]

\* impl From<String> for ParseError, under map_err: an Err(String) becomes the
\* ParseError kind, every other outcome passes through.
map_err_into(r) ==
    IF r.status = "Err" THEN [status |-> "Err", shapes |-> <<>>, by |-> "ParseError"] ELSE r

read_to_string(can_read, text) ==
    IF can_read THEN [status |-> "Ok", text |-> text] ELSE [status |-> "Err", text |-> <<>>]

\* parse_shapes_file(path): `?` returns the converted io::Error at once.
parse_shapes_file(can_read, text, checks) ==
    IF read_to_string(can_read, text).status = "Err" THEN from_io_error
    ELSE map_err_into(parse_shapes_content(read_to_string(can_read, text).text, checks))

ParseShapesFile ==
    /\ mode = "path" /\ pc = "path"
    /\ result' = parse_shapes_file(readable, content, overflow_checks)
    /\ pc' = "loaded"
    /\ UNCHANGED <<mode, overflow_checks, file, content, shapes_file, trail, token, tag, scan,
                   readable, editor, last>>

Next ==
    \/ ParseShapesContent \/ FixLuaSyntax \/ SerializeShapesFile \/ ToStr \/ FromStr
    \/ LegacyParseShapes \/ LegacyIteration \/ ShapeIteration \/ ScaleIteration
    \/ ParseShapesFile

Spec == Init /\ [][Next]_vars

----------------------------------------------------------------------------
(* The editor at work: one action per operation of a frame *)

MaxShapes == 2
MaxAppVerts == 4
MaxAppPorts == 3
MaxIdx == 2
MaxOps == 3

\* Indices the panels and keys hand over, one of them past short lists.
Indices == 0..MaxIdx
\* Where a click on empty canvas lands, and where a drag leaves a vertex.
ClickCoords == Vertex(1000, 0)
DragCoords == Vertex(0, 1000)

\* The file shapes.lua, which import_path and export_path both name at start-up: a
\* one-shape file with a typed port, or a file of no shapes.
ShapesLua == {Render([Scenario1 EXCEPT !.layout = "inline"]), serialize_shapes_file([shapes |-> <<>>])}

\* The editor after n clicks on the launcher_radial checkbox, n > 0: every click but
\* the first found shapes unlike the last snapshot and pushed them.
Toggled(n) ==
    [ShapeEditor_new EXCEPT
        !.shapes = <<[AppShape(1) EXCEPT !.launcher_radial = (n % 2 = 1)]>>,
        !.undo_history =
            [k \in 1..n |-> <<[AppShape(1) EXCEPT !.launcher_radial = (k % 2 = 0)]>>]]

\* An editor whose undo history is full.
Aged == Toggled(MAX_UNDO_HISTORY)

\* The editor is started, or has worked for a while, or has imported shapes.lua.
EditorInit ==
    /\ mode = "editor" /\ pc = "editing"
    /\ overflow_checks = TRUE
    /\ file = NoFile /\ shapes_file = NoModel /\ token = "" /\ tag = ""
    /\ result = NoResult /\ trail = <<>> /\ scan = NoScan
    /\ last = NoOp
    /\ \/ /\ editor = ShapeEditor_new
          /\ content \in ShapesLua
          /\ readable \in BOOLEAN
       \/ /\ editor = Aged
          /\ content \in ShapesLua
          /\ readable = TRUE
       \/ /\ content \in ShapesLua
          /\ readable = TRUE
          /\ editor = import_shapes(ShapeEditor_new, TRUE, content, TRUE).editor

\* The current shape.
Current == At(editor.shapes, editor.current_shape_idx)

\* The record of an operation: its name and argument, the operation before it, and the
\* shapes it found.
Did(op, arg) ==
    [op |-> op, arg |-> arg, prev |-> last.op, before |-> editor.shapes, n |-> last.n + 1]

\* An operation that touches the editor only: e is the editor it leaves.
Edit(op, arg, e) ==
    /\ mode = "editor" /\ pc = "editing" /\ last.n < MaxOps
    /\ editor' = e
    /\ last' = Did(op, arg)
    /\ UNCHANGED <<mode, overflow_checks, file, content, shapes_file, result, trail, token,
                   tag, pc, scan, readable>>

AddShape ==
    /\ Len(editor.shapes) < MaxShapes
    /\ Edit("add_shape", 0, add_shape(editor))

\* A click on a label of the shapes list
SelectShape ==
    \E i \in 0..(Len(editor.shapes) - 1) :
        /\ i /= editor.current_shape_idx
        /\ Edit("select_shape", i, [editor EXCEPT !.current_shape_idx = i])

\* A click on empty canvas
AddVertex ==
    /\ Len(Current.vertices) < MaxAppVerts
    /\ Edit("add_vertex", 0,
            add_or_update_vertex(editor, editor.current_shape_idx, ClickCoords, None))

UpdateVertexEdit ==
    \E idx \in Indices :
        /\ idx < Len(Current.vertices)
        /\ Edit("update_vertex", idx, UpdateVertex(editor, idx, DragCoords))

RemoveVertexEdit ==
    \E idx \in Indices :
        /\ pc = "editing"
        /\ Edit("remove_vertex", idx, remove_vertex(editor, editor.current_shape_idx, idx))

\* The add-port button, enabled for a shape with vertices
AddPortEdit ==
    /\ Len(Current.vertices) /= 0
    /\ Len(Current.ports) < MaxAppPorts
    /\ Edit("add_port", 0,
            add_port(editor, editor.current_shape_idx,
                     [edge |-> 0, position |-> 50, port_type |-> "Default"]))

AddPortClick ==
    \E edge_idx \in Indices :
        /\ edge_idx < Len(Current.vertices)
        /\ Len(Current.ports) < MaxAppPorts
        /\ Edit("add_port_click", edge_idx, AddPortOnEdge(editor, edge_idx, 25))

UpdatePortEdit ==
    \E idx \in Indices :
        /\ idx < Len(Current.ports)
        /\ Edit("update_port", idx,
                UpdatePort(editor, idx, [At(Current.ports, idx) EXCEPT !.port_type = "Missile"]))

RemovePortEdit ==
    \E idx \in Indices :
        /\ pc = "editing"
        /\ Edit("remove_port", idx, remove_port(editor, editor.current_shape_idx, idx))

SelectVertexEdit ==
    \E idx \in Indices :
        /\ idx < Len(Current.vertices)
        /\ Edit("select_vertex", idx, SelectVertex(editor, Some(idx)))

SelectPortEdit ==
    \E idx \in Indices :
        /\ idx < Len(Current.ports)
        /\ Edit("select_port", idx, SelectPort(editor, Some(idx)))

\* The Escape key
ClearSelection ==
    /\ IsSome(Current.selected_vertex) \/ IsSome(Current.selected_port)
    /\ Edit("clear_selection", 0,
            [editor EXCEPT !.shapes[editor.current_shape_idx + 1].selected_vertex = None,
                           !.shapes[editor.current_shape_idx + 1].selected_port = None])

UpdateNameEdit ==
    /\ Current.name /= "Hull"
    /\ Edit("update_name", 0, UpdateName(editor, "Hull"))

ToggleLauncherRadialEdit ==
    /\ pc = "editing"
    /\ Edit("toggle_launcher_radial", 0, ToggleLauncherRadial(editor, ~Current.launcher_radial))

DeleteKey ==
    /\ IsSome(Current.selected_vertex) \/ IsSome(Current.selected_port)
    /\ Edit("delete_key", 0, DeleteSelected(editor))

\* One frame of a drag with the primary button; a frame that does not start the drag
\* follows a frame of the same drag.
Drag ==
    \E drag_started \in BOOLEAN :
        /\ mode = "editor" /\ pc = "editing" /\ last.n < MaxOps
        /\ IsSome(Current.selected_vertex) \/ IsSome(Current.selected_port)
        /\ drag_started \/ last.op \in {"drag_start", "drag"}
        /\ IF DragPanics(editor)
           THEN /\ pc' = "panicked"
                /\ editor' = IF drag_started THEN save_state(editor) ELSE editor
           ELSE /\ pc' = "editing"
                /\ editor' = Dragged(editor, drag_started, DragCoords, 75)
        /\ last' = Did(IF drag_started THEN "drag_start" ELSE "drag", 0)
        /\ UNCHANGED <<mode, overflow_checks, file, content, shapes_file, result, trail,
                       token, tag, scan, readable>>

\* Ctrl+Z
Undo ==
    /\ pc = "editing"
    /\ Edit("undo", 0, undo(editor))

\* Ctrl+Shift+Z or Ctrl+Y
Redo ==
    /\ pc = "editing"
    /\ Edit("redo", 0, redo(editor))

\* What a call of import_shapes leaves behind.
Imported(o) ==
    /\ editor' = o.editor
    /\ result' = [NoResult EXCEPT !.status = o.status]
    /\ pc' = IF o.status = "Panic" THEN "panicked" ELSE "editing"

\* The import button: import_shapes() on the file import_path names
ImportShapes ==
    /\ mode = "editor" /\ pc = "editing" /\ last.n < MaxOps
    /\ Imported(import_shapes(editor, readable, content, overflow_checks))
    /\ last' = Did("import_shapes", 0)
    /\ UNCHANGED <<mode, overflow_checks, file, content, shapes_file, trail, token, tag, scan,
                   readable>>

\* The export button: export_shapes() writes the file export_path names, or fails to.
ExportShapes ==
    \E written \in BOOLEAN :
        /\ mode = "editor" /\ pc = "editing" /\ last.n < MaxOps
        /\ content' = IF written THEN export_shapes(editor) ELSE content
        /\ readable' = IF written THEN TRUE ELSE readable
        /\ result' = [NoResult EXCEPT !.status = IF written THEN "Ok" ELSE "Err"]
        /\ last' = Did("export_shapes", 0)
        /\ UNCHANGED <<mode, overflow_checks, file, shapes_file, trail, token, tag, pc, scan,
                       editor>>

EditorNext ==
    \/ AddShape \/ SelectShape \/ AddVertex \/ UpdateVertexEdit \/ RemoveVertexEdit
    \/ AddPortEdit \/ AddPortClick \/ UpdatePortEdit \/ RemovePortEdit
    \/ SelectVertexEdit \/ SelectPortEdit \/ ClearSelection
    \/ UpdateNameEdit \/ ToggleLauncherRadialEdit \/ DeleteKey \/ Drag
    \/ Undo \/ Redo \/ ImportShapes \/ ExportShapes

EditorSpec == EditorInit /\ [][EditorNext]_vars

----------------------------------------------------------------------------
(* The claims *)

\* A file with one well-formed shape whose id line reads `{5001, --Square`.
WellFormed(f) ==
    f.head = "comma_comment" /\ f.tail = "closed" /\ f.count = 1 /\ f.ids = Scenario1.ids

\* Every vertex row of the file is two coordinates, each a literal or a negated literal.
PlainRows(f) == \A k \in 1..Len(f.verts) : f.verts[k] \in VertexLits

\* The value a coordinate spells: the literal's, negated after a minus sign.
Spelled(lit) == IF lit[1] = "-" THEN 0 - DecLit[lit[2]] ELSE DecLit[lit[1]]

\* The vertices a file spells, as a model built directly holds them.
SpelledVerts(f) ==
    [k \in 1..Len(f.verts) |-> Vertex(Spelled(f.verts[k][1]), Spelled(f.verts[k][2]))]

\* C1: for every input text parse_shapes_content returns Ok; no text makes the call
\* end in anything else.
C1_AlwaysOk == pc = "parsed" => result.status = "Ok"

\* C2: parsing the text serialize_shapes_file writes for a model gives back the
\* shapes of that model, equal field by field.
C2_RoundTrip ==
    (mode = "model" /\ pc = "parsed")
        => (result.status = "Ok" /\ result.shapes = shapes_file.shapes)

\* C3: the repair pass is idempotent: repairing a repaired text changes nothing.
C3_RepairIdempotent == Len(trail) >= 2 => trail[2] = trail[1]

\* C4: a launcher_radial already written as an assignment keeps its value under the
\* repair pass and gains no additional `= true`: the repaired text spells `true`
\* as often as the text did.
C4_AssignmentKept ==
    (mode = "file" /\ Len(trail) >= 1
        /\ file.lr \in {"eq_true", "eq_false", "tight_true", "tight_false"})
        => Count(trail[1], "true") = Count(content, "true")

\* C5: from_str(to_str(tag)) = tag for each of the 9 tags, and every token that is
\* not a recognised uppercase token maps to Default.
C5_PortTypeMapping ==
    /\ (mode = "tag" /\ pc = "read") => result.by = tag
    /\ (mode = "token" /\ pc = "read" /\ token \notin {to_str(t) : t \in PortTypes})
           => result.by = "Default"

\* C5 happens: the tag None went through to_str and from_str and came back.
C5_Witness == mode = "tag" /\ pc = "read" /\ tag = "None" /\ token = "NONE" /\ result.by = "None"

\* C6: a shape whose id line carries the comment `--Square` is returned with the
\* name "Square", and a shape without a comment has no name.
C6_NameFromComment ==
    (mode = "file" /\ pc = "parsed" /\ file.tail = "closed" /\ file.count = 1
        /\ file.ids = Scenario1.ids
        /\ file.head \in {"comma_comment", "comma"} /\ result.status = "Ok")
        => /\ Len(result.shapes) = 1
           /\ result.shapes[1].name =
                  (IF file.head = "comma_comment" THEN Some("Square") ELSE None)

\* C7: in the grammar-driven parser every port is kept, a port with a third entry
\* gets the tag the PortType table gives that token, and a 2-entry port has no type.
C7_PortThirdEntry ==
    (mode = "file" /\ pc = "parsed" /\ WellFormed(file) /\ result.by = "grammar")
        => /\ Len(result.shapes) = 1
           /\ Len(result.shapes[1].scales) = 1
           /\ Len(result.shapes[1].scales[1].ports) = Len(file.thirds)
           /\ \A k \in 1..Len(file.thirds) :
                  result.shapes[1].scales[1].ports[k].port_type =
                      (IF file.thirds[k] = "" THEN None
                       ELSE Some(from_str(file.thirds[k])))

\* C8: the grammar-driven parser returns, for every vertex row of a verts block, the
\* vertex its two coordinates spell, each a literal or a minus sign and a literal:
\* none is dropped and none has the wrong sign.
C8_NegativeCoordinates ==
    (mode = "file" /\ pc = "parsed" /\ result.by = "grammar" /\ PlainRows(file))
        => \A s \in 1..Len(result.shapes) :
               /\ Len(result.shapes[s].scales) = 1
               /\ result.shapes[s].scales[1].verts = SpelledVerts(file)

\* C8 happens: the row `{-5, 3.5}` was parsed by the grammar-driven parser.
C8_Witness ==
    /\ mode = "file" /\ pc = "parsed" /\ result.by = "grammar"
    /\ file.verts = << <<<<"-", "5">>, <<"3.5">>>> >>
    /\ result.shapes[1].scales[1].verts = <<Vertex(-500, 350)>>

\* C9: a returned shape's launcher_radial is false exactly when the key's value is
\* the identifier `false`, and true when the key is bare or has another value.
C9_LauncherRadialFalse ==
    (mode = "file" /\ pc = "parsed" /\ WellFormed(file) /\ file.lr /= "absent"
        /\ result.status = "Ok")
        => /\ Len(result.shapes) = 1
           /\ result.shapes[1].launcher_radial =
                  Some(file.lr \notin {"eq_false", "tight_false"})

\* C10: a single-shape file without the comma after the id parses to what the same
\* file with the comma parses to: one shape, id 5001, the same scales.
C10_MissingComma ==
    (mode = "file" /\ pc = "parsed" /\ file.head = "nocomma_comment"
        /\ file.tail = "closed" /\ file.count = 1)
        => /\ result.status = "Ok"
           /\ Len(result.shapes) = 1
           /\ result.shapes[1].id = 5001
           /\ result.shapes =
                  parse_shapes_content(Render([file EXCEPT !.head = "comma_comment"]),
                                       overflow_checks).shapes

\* C11: legacy_parse_shapes is total: no text makes it abort, and the brace depth
\* parse_shape counts never goes below zero.
C11_HeuristicTotal ==
    mode = "scan" => (scan.phase /= "panic" /\ scan.brace_level >= 0)

\* C12: serialize_shapes_file writes no type token for a port whose type is Default
\* (nor for one without a type): the text never spells DEFAULT.
C12_DefaultOmitted ==
    (mode = "model" /\ pc = "serialized") => ~Contains(content, "DEFAULT")

\* The lexeme at position p of a text, "" outside it.
Atom(text, p) == IF p >= 1 /\ p <= Len(text) THEN text[p] ELSE ""

\* Position p holds the key of a `key = ...` line written at the indentation of a
\* shape's properties (three levels).
IsPropertyKey(text, p) ==
    /\ Atom(text, p - 4) = NL /\ Atom(text, p - 3) = IND /\ Atom(text, p - 2) = IND
    /\ Atom(text, p - 1) = IND /\ Atom(text, p) /= IND
    /\ Atom(text, p + 1) = SP /\ Atom(text, p + 2) = "="

\* The property keys a text spells, in the order written.
PropertyKeys(text) ==
    LET ps == SelectSeq([p \in 1..Len(text) |-> p], LAMBDA p : IsPropertyKey(text, p))
    IN  [k \in 1..Len(ps) |-> text[ps[k]]]

\* The order the properties are to be written in: the key and the field it spells.
PropertyOrder ==
    << <<"group", "group">>, <<"features", "features">>, <<"fillColor", "fill_color">>,
       <<"fillColor1", "fill_color1">>, <<"lineColor", "line_color">>,
       <<"durability", "durability">>, <<"density", "density">>, <<"growRate", "grow_rate">>,
       <<"launcher_radial", "launcher_radial">>, <<"mirror_of", "mirror_of">>,
       <<"shroud", "shroud">>, <<"cannon", "cannon">>, <<"thruster", "thruster">> >>

\* The keys of the properties a shape has, in that order.
ExpectedKeys(shape) ==
    LET present == SelectSeq(PropertyOrder, LAMBDA e : IsSome(shape[e[2]]))
    IN  [k \in 1..Len(present) |-> present[k][1]]

\* C13: the text serialize_shapes_file writes spells, for every shape, exactly the
\* properties the shape has, each once, in the order group, features, fillColor,
\* fillColor1, lineColor, durability, density, growRate, launcher_radial, mirror_of,
\* shroud, cannon, thruster, and after the verts and ports of all its scales.
C13_PropertyOrder ==
    (mode = "model" /\ pc = "serialized")
        => /\ PropertyKeys(content) =
                  Flatten([k \in 1..Len(shapes_file.shapes) |->
                              ExpectedKeys(shapes_file.shapes[k])])
           /\ Len(shapes_file.shapes) = 1
                  => \A p \in {p \in 1..Len(content) : content[p] \in {"verts", "ports"}} :
                         \A q \in {q \in 1..Len(content) : IsPropertyKey(content, q)} : p < q

\* C13 happens: a shape with all thirteen properties was serialized.
C13_Witness ==
    /\ mode = "model" /\ pc = "serialized"
    /\ Len(shapes_file.shapes) = 1 /\ Len(shapes_file.shapes[1].scales) = 1
    /\ Len(PropertyKeys(content)) = 13

\* The lexemes written after `key = ` in a text, in the order written.
ValuesAfter(text, key) ==
    LET ps == SelectSeq([p \in 1..Len(text) |-> p],
                        LAMBDA p : /\ text[p] = key /\ Atom(text, p + 1) = SP
                                   /\ Atom(text, p + 2) = "=" /\ Atom(text, p + 3) = SP)
    IN  [k \in 1..Len(ps) |-> Atom(text, ps[k] + 4)]

\* `0x` and the 8 hex digits, zero-padded, of the colours the models use.
ColourWritten == (1126519 :> "0x00113077") @@ (16777215 :> "0x00ffffff")

OptColour(o) == IF IsSome(o) THEN <<ColourWritten[o[1]]>> ELSE <<>>

\* C14: every colour of a serialized shape (fillColor, fillColor1, lineColor and the
\* colours of cannon, fragment and thruster) is written as `0x` and its 8 zero-padded
\* hex digits; 0x113077 is written 0x00113077.
C14_ColourHex ==
    (mode = "model" /\ pc = "serialized" /\ Len(shapes_file.shapes) = 1)
        => LET sh == shapes_file.shapes[1]
           IN  /\ ValuesAfter(content, "fillColor") = OptColour(sh.fill_color)
               /\ ValuesAfter(content, "fillColor1") = OptColour(sh.fill_color1)
               /\ ValuesAfter(content, "lineColor") = OptColour(sh.line_color)
               /\ ValuesAfter(content, "color") =
                      (IF IsSome(sh.cannon)
                       THEN OptColour(sh.cannon[1].color)
                            \o (IF IsSome(sh.cannon[1].fragment)
                                THEN OptColour(sh.cannon[1].fragment[1].color) ELSE <<>>)
                       ELSE <<>>)
                      \o (IF IsSome(sh.thruster) THEN OptColour(sh.thruster[1].color) ELSE <<>>)

\* C14 happens: a shape with fill_color 0x113077 and all six colours was serialized.
C14_Witness ==
    /\ mode = "model" /\ pc = "serialized" /\ Len(shapes_file.shapes) = 1
    /\ shapes_file.shapes[1].fill_color = Some(1126519)
    /\ ValuesAfter(content, "fillColor") = <<"0x00113077">>
    /\ Len(ValuesAfter(content, "color")) = 3

\* C15: parse_shapes_file returns an error of kind IoError, never ParseError, when the
\* file cannot be read, and what parse_shapes_content returns for the content when it
\* can.
C15_IoErrorKind ==
    (mode = "path" /\ pc = "loaded")
        => IF readable
           THEN result = parse_shapes_content(content, overflow_checks)
           ELSE result.status = "Err" /\ result.by = "IoError"

\* C15 happens: a file that cannot be read was asked for.
C15_Witness ==
    mode = "path" /\ pc = "loaded" /\ ~readable /\ result.status = "Err" /\ result.by = "IoError"

\* A first entry that is an unsigned integer literal.
IsUnsigned(id) == Len(id) = 1 /\ id[1] \in IntLit

\* The ids of the file's shape tables whose first entry is an unsigned integer
\* literal, in the order written.
WrittenIds(f) ==
    LET good == SelectSeq(SubSeq(f.ids, 1, f.count), IsUnsigned)
    IN  [k \in 1..Len(good) |-> DecLit[good[k][1]] \div 100]

IdsOf(shapes) == [k \in 1..Len(shapes) |-> shapes[k].id]

\* C16: the grammar-driven parser leaves out, without error, every shape table whose
\* first entry is no unsigned integer literal, and returns the other shapes of the
\* file in the order written.
C16_ShapeWithoutId ==
    (mode = "file" /\ pc = "parsed")
        => /\ IsSome(GrammarShapes(content))
                  => IdsOf(GrammarShapes(content)[1]) = WrittenIds(file)
           /\ result.by = "grammar"
                  => result.status = "Ok" /\ result.shapes = GrammarShapes(content)[1]

\* C16 happens: of three shape tables the first had the id 3.5, and the other two
\* were returned.
C16_Witness ==
    /\ mode = "file" /\ pc = "parsed" /\ result.by = "grammar" /\ file.count = 3
    /\ file.ids = << <<"3.5">>, <<"5002">>, <<"10">> >>
    /\ IdsOf(result.shapes) = <<5002, 10>>

\* The vertices of the file's rows that are two numeric coordinates, in order.
KeptVerts(f) ==
    LET good == SelectSeq(f.verts, LAMBDA row : row \in VertexLits)
    IN  [k \in 1..Len(good) |-> Vertex(Spelled(good[k][1]), Spelled(good[k][2]))]

\* C17: of the entries of a verts block the grammar-driven parser keeps, in order,
\* exactly those that are tables of two numeric coordinates; an entry of one or three
\* coordinates, or with a non-numeric one, is skipped.
C17_MalformedVertexSkipped ==
    (mode = "file" /\ pc = "parsed" /\ WellFormed(file) /\ result.by = "grammar")
        => /\ Len(result.shapes) = 1
           /\ Len(result.shapes[1].scales) = 1
           /\ result.shapes[1].scales[1].verts = KeptVerts(file)

\* C18: on a brace-balanced file the heuristic parser returns one shape per shape
\* table, in input order, and takes no vertex or port line for the start of a shape:
\* every id returned is one written on an id line.
C18_ShapeBoundaries ==
    (mode = "scan" /\ pc = "scanned" /\ file /= NoFile /\ file.tail = "closed")
        => /\ result.status = "Ok"
           /\ \A k \in 1..Len(result.shapes) :
                  result.shapes[k].id \in Range(WrittenIds(file))
           /\ file.head /= "nocomma_comment"
                  => IdsOf(result.shapes) = WrittenIds(file)

\* The ports of the file's rows, as a model built directly holds them.
SpelledPorts(f) ==
    [k \in 1..Len(f.thirds) |->
        Port(k - 1, 50, IF f.thirds[k] = "" THEN None ELSE Some(from_str(f.thirds[k])))]

\* C19: for a scale written one row per line, verts block closed by `},` and followed
\* by a ports block, the heuristic parser returns one Scale with the vertices and the
\* ports, each third token mapped through the PortType table.
C19_ScaleVertsAndPorts ==
    (mode = "scan" /\ pc = "scanned" /\ WellFormed(file) /\ file.layout = "perline"
        /\ file.lr = "absent")
        => /\ result.status = "Ok"
           /\ Len(result.shapes) = 1
           /\ result.shapes[1].scales = <<Scale(SpelledVerts(file), SpelledPorts(file))>>

\* Every iteration of the three scans moves its line index forward, as does every
\* return: parse_shape resumes behind the line it handed to parse_scale, and
\* legacy_parse_shapes behind the id line it handed to parse_shape.
ScanAdvances ==
    /\ (scan.phase = "legacy" /\ scan'.phase = "legacy") => scan'.i > scan.i
    /\ (scan.phase = "legacy" /\ scan'.phase = "shape") => scan'.j > scan.i
    /\ (scan.phase = "shape" /\ scan'.phase = "shape") => scan'.j > scan.j
    /\ (scan.phase = "shape" /\ scan'.phase = "scale") => scan'.k = scan.j
    /\ (scan.phase = "scale" /\ scan'.phase = "scale") => scan'.k > scan.k
    /\ (scan.phase = "scale" /\ scan'.phase = "shape") => scan'.j > scan.j
    /\ (scan.phase = "shape" /\ scan'.phase = "legacy") => scan'.i > scan.i

\* A bound on the iterations a scan has left: the lines behind the index of
\* legacy_parse_shapes or parse_shape weigh most, then the loop that runs, then the
\* lines behind the index of parse_scale.
Variant(s) ==
    LET n == Len(s.ls)
    IN  CASE s.phase = "legacy" -> (n + 4) * (n + 2 - s.i)
          [] s.phase = "shape" -> (n + 4) * (n + 2 - s.j) + n + 3
          [] s.phase = "scale" -> (n + 4) * (n + 2 - s.j) + n + 2 - s.k
          [] OTHER -> 0

\* C20: the heuristic parser terminates on every text: each iteration of the scans of
\* legacy_parse_shapes, parse_shape and parse_scale moves the line index forward, also
\* across the hand-over of a `verts` line to parse_scale, and the iterations left,
\* never negative, get fewer with every step.
C20_ScanTerminates ==
    [][/\ ScanAdvances
       /\ (scan.phase \in {"legacy", "shape", "scale"})
              => (Variant(scan') < Variant(scan) /\ Variant(scan') >= 0)]_vars

\* C20 happens: parse_shape handed a `verts` line to parse_scale, resumed at the
\* index returned, and the call returned with the scale.
C20_Witness ==
    /\ mode = "scan" /\ pc = "scanned" /\ result.status = "Ok"
    /\ Len(result.shapes) = 1 /\ Len(result.shapes[1].scales) = 1


\* No type on any port of the shape.
Untyped(sh) ==
    \A j \in 1..Len(sh.scales) :
        \A p \in 1..Len(sh.scales[j].ports) : sh.scales[j].ports[p].port_type = None

\* A model whose shapes carry an id and scales only.
PlainModel(m) ==
    \A k \in 1..Len(m.shapes) :
        /\ m.shapes[k] = PlainShape(m.shapes[k].id, None, m.shapes[k].scales, None)
        /\ Untyped(m.shapes[k])

\* C30: for a model whose shapes have no name, no optional property and no port type,
\* parsing the serialized text returns the same shapes in the same order, with the same
\* ids, scales, vertices and ports; a model of no shapes, a shape of no scales and a
\* scale of no vertices or no ports included.
C30_PlainRoundTrip ==
    (mode = "model" /\ pc = "parsed" /\ PlainModel(shapes_file))
        => (result.status = "Ok" /\ result.shapes = shapes_file.shapes)

\* C30 happens: two shapes came back, the first with an empty scale followed by one
\* with a negative coordinate and a port.
C30_Witness ==
    /\ mode = "model" /\ pc = "parsed" /\ PlainModel(shapes_file)
    /\ Len(result.shapes) = 2
    /\ result.shapes[1].scales = <<Scale(<<>>, <<>>), Scale(<<V1, V2>>, <<Port(0, 50, None)>>)>>
    /\ result.shapes[2].id = 5002


----------------------------------------------------------------------------
(* Claims about the editor *)

\* The operations that call save_state and then change the shapes.
Edits ==
    {"add_shape", "add_vertex", "update_vertex", "remove_vertex", "add_port",
     "add_port_click", "update_port", "remove_port", "update_name",
     "toggle_launcher_radial", "delete_key"}

\* C21: undo reverts the last edit: when an edit has changed the shapes, one undo right
\* after it leaves the shapes as they were before that edit; the first edit after
\* start-up included, and one edit per undo.
C21_UndoRevertsLastEdit ==
    [][(last'.op = "undo" /\ last.op \in Edits /\ ~ShapesEq(editor.shapes, last.before))
           => ShapesEq(editor'.shapes, last.before)]_vars


\* C22: a redo right after an undo that changed the shapes leaves the shapes exactly as
\* they were before that undo; redo with an empty redo history, and undo with a single
\* snapshot in the undo history, change nothing.
C22_RedoRestores ==
    [][/\ (last'.op = "redo" /\ last.op = "undo" /\ editor.shapes /= last.before)
              => editor'.shapes = last.before
       /\ (last'.op = "redo" /\ editor.redo_history = <<>>) => editor' = editor
       /\ (last'.op = "undo" /\ Len(editor.undo_history) = 1) => editor' = editor]_vars

\* C22 happens: an undo changed the shapes and the redo after it changed them back.
C22_Witness ==
    /\ last.op = "redo" /\ last.prev = "undo"
    /\ editor.shapes /= last.before
    /\ Len(editor.undo_history) > 1
    /\ editor.redo_history = <<>>

\* The editor keeps its history within bounds.
HistoryBounded(e) ==
    Len(e.undo_history) >= 1 /\ Len(e.undo_history) <= MAX_UNDO_HISTORY

\* C23: after any sequence of edits, undo and redo the undo history holds at least one
\* and at most MAX_UNDO_HISTORY snapshots.
C23_HistoryBounds == mode = "editor" => HistoryBounded(editor)

\* C23 happens: an edit found the history full, and the oldest snapshot was dropped.
C23_Witness ==
    /\ mode = "editor" /\ last.op \in Edits
    /\ Len(editor.undo_history) = MAX_UNDO_HISTORY
    /\ editor.undo_history[1] /= Aged.undo_history[1]


\* The operations that call save_state whatever the editor holds.
Saving ==
    {"add_shape", "add_vertex", "update_vertex", "add_port", "add_port_click",
     "update_port", "update_name", "toggle_launcher_radial", "drag_start", "import_shapes"}

\* C24: every call of save_state, by an edit, an import attempt or the start of a drag,
\* leaves the redo history empty, and a redo right after it changes nothing; also when
\* the shapes equal the last snapshot and nothing is pushed.
C24_RedoCleared ==
    [][/\ last'.op \in Saving => editor'.redo_history = <<>>
       /\ (last'.op = "redo" /\ last.op \in Saving) => editor' = editor]_vars

\* C24 happens: after an undo an edit found the shapes equal to the last snapshot,
\* pushed nothing, and emptied the redo history.
C24_Witness ==
    /\ last.op \in Saving /\ last.prev = "undo"
    /\ Len(last.before) > 0
    /\ Len(editor.undo_history) = MAX_UNDO_HISTORY - 1
    /\ Last(editor.undo_history)[1] = last.before
    /\ editor.redo_history = <<>>


\* The ports of a shape once vertex v is gone, as the claim words it: those of edge v
\* dropped, those of a greater edge moved down by one, the others as they were.
PortsWithout(ports, v) ==
    LET kept == SelectSeq(ports, LAMBDA p : p.edge /= v)
    IN  [k \in 1..Len(kept) |->
            IF kept[k].edge > v THEN [kept[k] EXCEPT !.edge = @ - 1] ELSE kept[k]]

\* Every port sits on an edge that starts at a vertex of the shape.
EdgesInRange(sh) == \A k \in 1..Len(sh.ports) : sh.ports[k].edge < Len(sh.vertices)

\* C25: remove_vertex(shape, v) with v in range removes vertex v, removes the ports of
\* edge v, moves the ports of a greater edge down by one and leaves the others; ports
\* that all indexed a vertex before still do afterwards. With v out of range nothing
\* changes and no snapshot is saved.
C25_RemoveVertex ==
    [][last'.op = "remove_vertex"
           => LET v == last'.arg
                  before == At(editor.shapes, editor.current_shape_idx)
                  after == At(editor'.shapes, editor.current_shape_idx)
              IN  IF v < Len(before.vertices)
                  THEN /\ after.vertices = Remove(before.vertices, v)
                       /\ after.ports = PortsWithout(before.ports, v)
                       /\ EdgesInRange(before) => EdgesInRange(after)
                  ELSE editor' = editor]_vars

\* C25 happens: vertex 0 of a shape with ports on the edges 0 and 1 was removed; the
\* first port went with it and the second moved to edge 0.
C25_Witness ==
    /\ last.op = "remove_vertex" /\ last.arg = 0
    /\ Len(last.before) = 1 /\ Len(last.before[1].vertices) = 4
    /\ Len(last.before[1].ports) = 2
    /\ last.before[1].ports[1].edge = 0 /\ last.before[1].ports[2].edge = 1
    /\ Len(editor.shapes[1].vertices) = 3
    /\ Len(editor.shapes[1].ports) = 1 /\ editor.shapes[1].ports[1].edge = 0


\* C26: after any sequence of editor operations the shapes list is not empty and
\* current_shape_idx is smaller than the number of shapes.
C26_CurrentShapeExists ==
    mode = "editor"
        => (Len(editor.shapes) > 0 /\ editor.current_shape_idx < Len(editor.shapes))

\* C26 happens: an undo took away the second shape while it was the current one.
C26_Witness ==
    /\ last.op = "undo" /\ last.prev = "add_shape"
    /\ Len(last.before) = 2 /\ Len(editor.shapes) = 1
    /\ editor.current_shape_idx = 0

\* The selection of the shape indexes its lists.
SelectionInRange(sh) ==
    /\ IsSome(sh.selected_vertex) => sh.selected_vertex[1] < Len(sh.vertices)
    /\ IsSome(sh.selected_port) => sh.selected_port[1] < Len(sh.ports)

\* C27: after any sequence of editor operations a shape's selected_vertex, when set,
\* is smaller than its number of vertices and its selected_port, when set, smaller
\* than its number of ports, so that a drag of the selection never indexes out of range.
C27_SelectionInRange ==
    mode = "editor"
        => /\ \A k \in 1..Len(editor.shapes) : SelectionInRange(editor.shapes[k])
           /\ pc /= "panicked"


\* The text holds no shape that parse_shapes_content returns.
NoShapesIn(text, checks) ==
    /\ parse_shapes_content(text, checks).status = "Ok"
    /\ parse_shapes_content(text, checks).shapes = <<>>

\* C28: import_shapes leaves shapes and current_shape_idx as they were, both when the
\* file cannot be read and when its content yields no shape; the failed read raises the
\* error dialog and returns Err, the content without shapes returns Ok and raises no
\* dialog.
C28_ImportKeepsShapes ==
    [][last'.op = "import_shapes"
           => /\ ~readable
                     => /\ editor'.shapes = editor.shapes
                        /\ editor'.current_shape_idx = editor.current_shape_idx
                        /\ editor'.show_error_dialog
                        /\ result'.status = "Err"
              /\ (readable /\ NoShapesIn(content, overflow_checks))
                     => /\ editor'.shapes = editor.shapes
                        /\ editor'.current_shape_idx = editor.current_shape_idx
                        /\ editor'.show_error_dialog = editor.show_error_dialog
                        /\ result'.status = "Ok"]_vars

\* C28 happens: with the second of two shapes current, a file without shapes was
\* imported; both shapes and the index stayed, and no dialog was raised.
C28_Witness ==
    /\ last.op = "import_shapes" /\ readable
    /\ content = serialize_shapes_file([shapes |-> <<>>])
    /\ result.status = "Ok"
    /\ Len(editor.shapes) = 2 /\ editor.current_shape_idx = 1
    /\ editor.shapes = last.before
    /\ ~editor.show_error_dialog


\* C29: shapes that were exported and then imported from the exported text are the
\* shapes that were exported: each has the id, the name, the vertices, the ports (edge,
\* position and type) and the launcher_radial flag it had.
C29_ExportImportLossless ==
    [][(last.op = "export_shapes" /\ result.status = "Ok" /\ last'.op = "import_shapes")
           => /\ result'.status = "Ok"
              /\ ShapesEq(editor'.shapes, editor.shapes)]_vars

=============================================================================
